---- MODULE Spec2Model ----
\* capture-website: one capture call (file / buffer / base64) as a state machine.
\* internalCaptureWebsite validates the options, acquires a browser and a page,
\* runs the pipeline of internalCaptureWebsiteCore stage by stage (one action per
\* awaited operation), and releases the page and the browser in its finally block.
EXTENDS Integers, Sequences, FiniteSets, TLC

VARIABLES
    options,            \* the options object of the call
    input,              \* the input argument of the call
    site,               \* what the input leads to: response, element, body
    pc,                 \* position of the call in internalCaptureWebsite / ...Core
    browser,            \* the handle the call holds: "none", "launched", "injected"
    browserOpen,        \* whether that browser (launched or injected) is running
    browserCloseCalls,  \* number of browser.close() calls made by the call
    page,               \* "none", "open", "closed"
    pageCloseCalls,     \* number of page.close() calls made by the call
    pageError,          \* the variable pageError of internalCaptureWebsite
    crashAtSettle,      \* history: pageError at the moment the pipeline settled
    ops,                \* the browser/page operations issued so far, in order
    viewport,           \* the page's viewport (window.innerWidth / innerHeight)
    javaScript,         \* whether the page runs JavaScript
    headers,            \* the headers page.setExtraHTTPHeaders was called with
    userAgent,          \* the user agent the page presents, once one is set
    gotoOptions,        \* the referer of the gotoOptions the navigation was given
    hookCalls,          \* the hooks invoked so far, with the arguments they got
    consoleCalls,       \* the console messages handed to onConsole so far
    adBlocking,         \* whether the content filter is attached to the page
    dom,                \* one evaluation of scrollToElement in a document
    batch,              \* the injections of one call that is given lists of entries
    response,           \* what goto / setContent returned
    screenshotOptions,  \* the local screenshotOptions of the pipeline
    elementRect,        \* history: the rectangle $eval(getBoundingClientRect) gave
    shot,               \* the argument page.screenshot was called with
    printed,            \* the argument page.pdf was called with
    reuse,              \* calls reusing one options object: the object, the launches
    result,             \* history: the buffer the pipeline returned
    scroll,             \* locals of the scroll-and-wait loop and window.scrollY
    pending,            \* completion of the try block: return value or thrown error
    captured,           \* how internalCaptureWebsite settled
    fs,                 \* the destination of file(): its directory and the file
    entry,              \* the entry point called: "file", "buffer" or "base64"
    outcome,            \* how the call settled
    sharedBrowser,      \* concurrent calls: the browser handle they are all given
    concurrent          \* concurrent calls: each call's options, position, locals

vars == <<options, input, site, pc, browser, browserOpen, browserCloseCalls, page,
          pageCloseCalls, pageError, crashAtSettle, ops, viewport, javaScript,
          response, screenshotOptions, elementRect, shot, result, scroll, pending,
          captured, fs, entry, outcome, headers, userAgent, gotoOptions,
          hookCalls, sharedBrowser, concurrent, printed, reuse, consoleCalls,
          adBlocking, dom, batch>>

-----------------------------------------------------------------------------
\* JavaScript values.  An option (or any value that may be undefined) is <<>>
\* when it is undefined and <<v>> when it holds v.

Undefined == <<>>
Some(v) == <<v>>
IsSet(o) == o # Undefined
Val(o) == o[1]

\* Truthiness of a boolean, a number, a string and an object valued option.
TruthyBool(o) == IsSet(o) /\ Val(o)
TruthyNum(o) == IsSet(o) /\ Val(o) # 0
TruthyStr(o) == IsSet(o) /\ Val(o) # ""
TruthyObj(o) == IsSet(o)

\* a ?? b
Coalesce(o, d) == IF IsSet(o) THEN Val(o) ELSE d

Rect(x, y, w, h) == [x |-> x, y |-> y, width |-> w, height |-> h]

\* Errors: the kind of message, the option / operation names in it, and the
\* HTTP status code in it (0 when the message holds none).
Err(kind, names, status) == [kind |-> kind, names |-> names, status |-> status]
NoError == Err("", {}, 0)

\* Completions: nothing yet, a returned value, a thrown error.
NoBuffer == <<>>
Pending == [kind |-> "none", value |-> NoBuffer, error |-> NoError]
Return(v) == [kind |-> "return", value |-> v, error |-> NoError]
Throw(e) == [kind |-> "throw", value |-> NoBuffer, error |-> e]

\* The error a failing browser, page or filesystem operation rejects with.
OpError(op) == Err("operation failed", {op}, 0)

-----------------------------------------------------------------------------
\* Defaults of internalCaptureWebsiteCore.
DefaultWidth == 1280
DefaultHeight == 800
DefaultScaleFactor == 2
DefaultTimeout == 60    \* seconds

\* Bounds of the explored inputs.
MaxInset == 60          \* the largest inset edge tried
MaxScreens == 2         \* the body is at most this many viewport heights tall
MaxSteps == 4           \* the scroll steps followed on a page that keeps the loop going
MaxCalls == 2           \* the number of concurrent calls sharing one browser
MaxReuse == 3           \* the number of calls made with one options object
MaxDepth == 3           \* the elements from the scroll target up to the root
MaxEntries == 2         \* the entries of one modules, scripts or styles list

\* isUrl: /^(https?|file):\/\/|^data:/ (case-sensitive) on the input's prefix.
\* An input is modelled as its leading part and the rest of the string.
isUrl(string) == string.prefix \in {"http://", "https://", "file://", "data:"}

\* String.prototype.toLowerCase on the prefixes and header names in use.
ToLowerCase(s) ==
    CASE s = "HTTP://" -> "http://"
      [] s = "HTTPS://" -> "https://"
      [] s \in {"Referer", "REFERER"} -> "referer"
      [] s = "Referrer" -> "referrer"
      [] OTHER -> s

\* /^https?:\/\//i.test(input)
IsHttpInsensitive(string) == ToLowerCase(string.prefix) \in {"http://", "https://"}

\* fileUrl(input): the resolved absolute path as a file:// URL.
fileUrl(string) ==
    [prefix |-> "file://", rest |-> <<"/cwd/", string.prefix>> \o string.rest]

\* validateOptions without its second assert.
validateOptionsWithoutFullPage(o) ==
    IF TruthyObj(o.clip) /\ TruthyStr(o.element)
        THEN Some(Err("mutually exclusive", {"clip", "element"}, 0))
    ELSE IF o.type = Some("pdf") /\ TruthyObj(o.clip)
        THEN Some(Err("not supported when type is pdf", {"clip"}, 0))
    ELSE IF o.type = Some("pdf") /\ TruthyStr(o.element)
        THEN Some(Err("not supported when type is pdf", {"element"}, 0))
    ELSE IF o.type = Some("pdf") /\ TruthyNum(o.quality)
        THEN Some(Err("not supported when type is pdf", {"quality"}, 0))
    ELSE Undefined

\* assert(value, message) over the five checks of validateOptions, in order:
\* the error of the first failing check, or Undefined.
validateOptions(o) ==
    IF TruthyObj(o.clip) /\ TruthyStr(o.element)
        THEN Some(Err("mutually exclusive", {"clip", "element"}, 0))
    ELSE IF TruthyObj(o.clip) /\ TruthyBool(o.fullPage)
        THEN Some(Err("mutually exclusive", {"clip", "fullPage"}, 0))
    ELSE IF o.type = Some("pdf") /\ TruthyObj(o.clip)
        THEN Some(Err("not supported when type is pdf", {"clip"}, 0))
    ELSE IF o.type = Some("pdf") /\ TruthyStr(o.element)
        THEN Some(Err("not supported when type is pdf", {"element"}, 0))
    ELSE IF o.type = Some("pdf") /\ TruthyNum(o.quality)
        THEN Some(Err("not supported when type is pdf", {"quality"}, 0))
    ELSE Undefined

\* The options of internalCaptureWebsiteCore: defaults, overridden by the caller's.
CoreDefaults ==
    [inputType |-> Some("url"), width |-> Some(DefaultWidth),
     height |-> Some(DefaultHeight), scaleFactor |-> Some(DefaultScaleFactor),
     fullPage |-> Some(FALSE), timeout |-> Some(DefaultTimeout),
     throwOnHttpError |-> Some(FALSE), _keepAlive |-> Some(FALSE),
     inset |-> Some([isNumber |-> TRUE, n |-> 0, top |-> Undefined,
                     right |-> Undefined, bottom |-> Undefined, left |-> Undefined]),
     preloadLazyContent |-> Some(FALSE), defaultBackground |-> Some(TRUE),
     isJavaScriptEnabled |-> Some(TRUE), blockAds |-> Some(TRUE),
     delay |-> Some(0)]

CoreOptions(o) ==
    [k \in DOMAIN o |->
        IF IsSet(o[k]) \/ k \notin DOMAIN CoreDefaults THEN o[k] ELSE CoreDefaults[k]]

isHTMLContent(o) == CoreOptions(o).inputType = Some("html")

\* input = isHTMLContent || isUrl(input) ? input : fileUrl(input)
CoreInput(o, in) == IF isHTMLContent(o) \/ isUrl(in) THEN in ELSE fileUrl(in)

-----------------------------------------------------------------------------
\* Screenshot options and clip geometry.

NumberInset(n) ==
    [isNumber |-> TRUE, n |-> n, top |-> Undefined, right |-> Undefined,
     bottom |-> Undefined, left |-> Undefined]
ObjectInset(t, r, b, l) ==
    [isNumber |-> FALSE, n |-> 0, top |-> t, right |-> r, bottom |-> b, left |-> l]

\* The pdf option: {background, format, landscape, margin}, each optional.
Pdf(background, format, landscape, margin) ==
    [background |-> background, format |-> format, landscape |-> landscape,
     margin |-> margin]
NoPdf == Pdf(Undefined, Undefined, Undefined, Undefined)

\* Truthiness of options.inset: a number or an object.
TruthyInset(o) == IsSet(o) /\ (Val(o).isNumber => Val(o).n # 0)

\* quality is held in thousandths; Math.round(Math.max(0, Math.min(1, q)) * 100).
Min(a, b) == IF a < b THEN a ELSE b
Max(a, b) == IF a > b THEN a ELSE b

\* The quality scaled and rounded without the clamp.
ScreenshotQualityUnclamped(q) == (q + 5) \div 10

ScreenshotQuality(q) == (Max(0, Min(1000, q)) + 5) \div 10

\* screenshotOptions as built before the first page operation.
InitialScreenshotOptions(o) ==
    [type |-> IF TruthyStr(o.type) THEN o.type ELSE Undefined,
     quality |-> IF IsSet(o.quality) /\ TruthyStr(o.type) /\ o.type # Some("png")
                    THEN Some(ScreenshotQuality(Val(o.quality)))
                    ELSE Undefined,
     fullPage |-> IF TruthyBool(o.fullPage) THEN o.fullPage ELSE Undefined,
     omitBackground |-> IF IsSet(o.defaultBackground)
                           THEN Some(~Val(o.defaultBackground))
                           ELSE Undefined,
     clip |-> Undefined]

\* The four edges of options.inset: every edge the number, or each key ?? 0.
InsetEdges(inset) ==
    [top |-> IF inset.isNumber THEN inset.n ELSE Coalesce(inset.top, 0),
     right |-> IF inset.isNumber THEN inset.n ELSE Coalesce(inset.right, 0),
     bottom |-> IF inset.isNumber THEN inset.n ELSE Coalesce(inset.bottom, 0),
     left |-> IF inset.isNumber THEN inset.n ELSE Coalesce(inset.left, 0)]

\* The inset test without its fullPage condition.
InsetAppliesToFullPage(o, so) == TruthyInset(o.inset)

\* if (options.inset && !screenshotOptions.fullPage)
InsetApplies(o, so) == TruthyInset(o.inset) /\ ~TruthyBool(so.fullPage)

\* The inset clip with its origin left where it was.
ApplyInsetUnmoved(clipOptions, inset) ==
    Rect(clipOptions.x,
         clipOptions.y,
         clipOptions.width - (inset.left + inset.right),
         clipOptions.height - (inset.top + inset.bottom))

\* x, y, width and height of the inset clip.
ApplyInset(clipOptions, inset) ==
    Rect(clipOptions.x + inset.left,
         clipOptions.y + inset.top,
         clipOptions.width - (inset.left + inset.right),
         clipOptions.height - (inset.top + inset.bottom))

\* const shouldScrollToLoadContent = screenshotOptions.fullPage || options.preloadLazyContent
shouldScrollToLoadContent(o, so) ==
    TruthyBool(so.fullPage) \/ TruthyBool(o.preloadLazyContent)

\* response.ok() of the navigation response: a status in 200..299.
ResponseOk(status) == status >= 200 /\ status <= 299

\* The HTTP-status check with the scheme test /^https:\/\//i.
HttpErrorThrownHttpsOnly(o, in, resp) ==
    /\ TruthyBool(o.throwOnHttpError)
    /\ o.inputType # Some("html")
    /\ IsSet(resp)
    /\ ~ResponseOk(Val(resp))
    /\ ToLowerCase(in.prefix) = "https://"

\* The HTTP-status check without its scheme test.
HttpErrorThrownAnyScheme(o, in, resp) ==
    /\ TruthyBool(o.throwOnHttpError)
    /\ o.inputType # Some("html")
    /\ IsSet(resp)
    /\ ~ResponseOk(Val(resp))

\* The HTTP-status check that follows navigation.
HttpErrorThrown(o, in, resp) ==
    /\ TruthyBool(o.throwOnHttpError)
    /\ o.inputType # Some("html")
    /\ IsSet(resp)
    /\ ~ResponseOk(Val(resp))
    /\ IsHttpInsensitive(in)

-----------------------------------------------------------------------------
\* The calls explored: an entry point, an input, an options object, the state
\* of the destination of file(), and the site the input leads to.

OptionNames ==
    {"clip", "element", "fullPage", "type", "quality", "inset", "throwOnHttpError",
     "inputType", "_browser", "_keepAlive", "beforeNavigation", "beforeScreenshot",
     "preloadLazyContent", "width", "height", "defaultBackground",
     "isJavaScriptEnabled", "blockAds", "delay", "preloadFunction", "authentication",
     "cookies", "headers", "userAgent", "emulateDevice", "disableAnimations",
     "hideElements", "removeElements", "clickElement", "modules", "scripts",
     "styles", "waitForElement", "scrollToElement", "overwrite", "referrer",
     "scaleFactor", "timeout", "waitForNetworkIdle", "debug", "onConsole", "pdf"}

NoOptions == [k \in OptionNames |-> Undefined]

\* An entry of the headers option: a name and a value, which need not be a
\* string.  String(value) turns the value into its string.
Header(name, value) == <<name, [isString |-> FALSE, value |-> value]>>
String(v) == [isString |-> TRUE, value |-> v.value]

\* The known-device table of the browser library.
KnownDevices == {"iPhone X", "iPhone 6"}
DeviceViewport(name) ==
    IF name = "iPhone X"
        THEN [width |-> 375, height |-> 812, deviceScaleFactor |-> 3]
        ELSE [width |-> 375, height |-> 667, deviceScaleFactor |-> 2]
DeviceUserAgent(name) ==
    IF name = "iPhone X" THEN "Mozilla/5.0 (iPhone X)" ELSE "Mozilla/5.0 (iPhone 6)"

\* The viewport the tests capture with.
SmallViewport == [NoOptions EXCEPT !.width = Some(100), !.height = Some(100)]

HttpsInput == [prefix |-> "https://", rest |-> <<"example.com/">>]
Inputs ==
    {[prefix |-> p, rest |-> <<"example.com/">>] :
        p \in {"http://", "https://", "HTTPS://", "file://", "data:", "./"}}

ClipOption == Rect(1, 10, 10, 100)
ElementRects == {Rect(10, 10, 80, 20), Rect(0, 30, 100, 500)}

InsetOptions ==
    {Some(NumberInset(n)) : n \in {-10, 0, 10, 50, MaxInset}}
    \cup {Some(ObjectInset(Some(30), Undefined, Undefined, Some(10))),
          Some(ObjectInset(Undefined, Undefined, Undefined, Undefined)),
          Some(ObjectInset(Some(0), Some(20), Some(MaxInset), Some(-80)))}

\* The heights a measurement of the body may give, for the tests' viewport
\* height: below one viewport, between whole viewports, and exactly MaxScreens
\* viewports.
BodyHeights ==
    {k * 100 + 50 : k \in 0 .. MaxScreens - 1} \cup {MaxScreens * 100}

\* bodyHandle.boundingBox(): a box, or null when the body is not rendered.
BoundingBoxes == {Undefined} \cup {Some(h) : h \in BodyHeights}

\* The successive measurements of the body: static, or changing after the
\* first scroll step.
BodySequences ==
    {<<box>> : box \in BoundingBoxes}
    \cup {<<Some(h), box>> : h \in BodyHeights \ {50}, box \in BoundingBoxes}

\* When the network of a loading page goes idle, in milliseconds from the start
\* of the navigation: with at most two connections left, and with none left
\* (undefined when a connection stays open for good).
Load(idle2, idle0) == [networkidle2 |-> idle2, networkidle0 |-> idle0]
QuickLoad == Load(Some(500), Some(500))
Loads ==
    {QuickLoad, Load(Some(500), Some(5000)), Load(Some(5000), Some(5000)),
     Load(Some(500), Undefined)}

\* A site: the status of its navigation response (none when goto resolves
\* with null), the rectangle of the element, the measurements of its body,
\* how long it loads, by how much its body grows at each scroll step once
\* those measurements are used up (0 for a page that stops growing), and the
\* number of console messages it logs.
Site(status, rect, body) ==
    [status |-> status, elementRect |-> rect, body |-> body, load |-> QuickLoad,
     grows |-> 0, console |-> 0]
PlainSite == Site(Some(200), Rect(10, 10, 80, 20), <<Some(50)>>)

\* The statuses a navigation response may carry.
Statuses == {200, 300, 404, 500}

EmptyDestination == [dir |-> TRUE, file |-> Undefined]
Destinations ==
    {EmptyDestination, [dir |-> TRUE, file |-> Some(<<1>>)],
     [dir |-> FALSE, file |-> Undefined]}

Call(e, in, o, d, s) == [entry |-> e, input |-> in, options |-> o, fs |-> d, site |-> s]

\* Option combinations the validator decides on.
ValidationCalls ==
    {Call("buffer", HttpsInput,
          [SmallViewport EXCEPT !.clip = c, !.element = el, !.fullPage = fp,
                                !.type = t, !.quality = q],
          EmptyDestination, PlainSite) :
        c \in {Undefined, Some(ClipOption)},
        el \in {Undefined, Some("#el")},
        fp \in {Undefined, Some(FALSE), Some(TRUE)},
        t \in {Undefined, Some("jpeg"), Some("pdf")},
        q \in {Undefined, Some(0), Some(500)}}

\* Valid and invalid options through each entry point, with and without an
\* injected browser.
EntryCalls ==
    {Call(e, HttpsInput, [o EXCEPT !._browser = b, !._keepAlive = b],
          EmptyDestination, PlainSite) :
        e \in {"file", "buffer", "base64"},
        b \in {Undefined, Some(TRUE)},
        o \in {SmallViewport,
               [SmallViewport EXCEPT !.clip = Some(ClipOption), !.element = Some("#el")],
               [SmallViewport EXCEPT !.clip = Some(ClipOption), !.fullPage = Some(TRUE)],
               [SmallViewport EXCEPT !.type = Some("pdf"), !.quality = Some(500)]}}

\* Browser ownership and hooks.
LifecycleCalls ==
    {Call("buffer", HttpsInput,
          [SmallViewport EXCEPT !._browser = b, !._keepAlive = k,
                                !.beforeNavigation = bn, !.beforeScreenshot = bs],
          EmptyDestination, PlainSite) :
        b \in {Undefined, Some(TRUE)},
        k \in {Undefined, Some(FALSE), Some(TRUE)},
        bn \in {Undefined, Some("returns"), Some("throws")},
        bs \in {Undefined, Some("returns"), Some("throws")}}

\* Inputs of every kind, with and without throwOnHttpError.
HttpCalls ==
    {Call("buffer", in,
          [SmallViewport EXCEPT !.inputType = it, !.throwOnHttpError = th],
          EmptyDestination, Site(st, PlainSite.elementRect, PlainSite.body)) :
        in \in Inputs,
        it \in {Undefined, Some("html")},
        th \in {Undefined, Some(TRUE)},
        st \in {Undefined} \cup {Some(n) : n \in Statuses}}

\* Clip geometry: element, explicit clip, full page, inset, viewport size.
GeometryCalls ==
    {Call("buffer", HttpsInput,
          [SmallViewport EXCEPT !.clip = c, !.element = el, !.fullPage = fp,
                                !.inset = i, !.emulateDevice = dev],
          EmptyDestination, Site(Some(200), rect, <<Some(50)>>)) :
        c \in {Undefined, Some(ClipOption)},
        el \in {Undefined, Some("#el")},
        fp \in {Undefined, Some(TRUE)},
        i \in InsetOptions \cup {Undefined},
        dev \in {Undefined, Some("iPhone X")},
        rect \in ElementRects}

\* Pages of every height, captured in full, with lazy-content preloading, or
\* neither.
ScrollCalls ==
    {Call("buffer", HttpsInput,
          [SmallViewport EXCEPT !.fullPage = fp, !.preloadLazyContent = pl,
                                !.scrollToElement = target],
          EmptyDestination, Site(Some(200), PlainSite.elementRect, body)) :
        fp \in {Undefined, Some(TRUE)},
        pl \in {Undefined, Some(TRUE)},
        target \in {Undefined, Some("#target")},
        body \in BodySequences}

\* Pages around the height of an emulated device, captured with the default
\* width and height options.
DeviceBodyHeights == {700, 805, 900}
DeviceScrollCalls ==
    {Call("buffer", HttpsInput,
          [NoOptions EXCEPT !.emulateDevice = Some(dev), !.fullPage = fp,
                            !.preloadLazyContent = pl],
          EmptyDestination, Site(Some(200), PlainSite.elementRect, <<Some(h)>>)) :
        dev \in KnownDevices,
        fp \in {Undefined, Some(TRUE)},
        pl \in {Undefined, Some(TRUE)},
        h \in DeviceBodyHeights}

\* The headers option with referer entries in several spellings, and the
\* referrer option.
ReferrerOption == "https://referrer-option.com"
HeadersOptions ==
    {{},
     {Header("referer", "https://headers-option.com")},
     {Header("Referer", "https://headers-option.com"), Header("x-powered-by", 1)},
     {Header("REFERER", "r"), Header("referer", "r"), Header("Referrer", "r"),
      Header("x-powered-by", 1)}}
ReferrerCalls ==
    {Call("buffer", HttpsInput,
          [SmallViewport EXCEPT !.headers = h, !.referrer = r, !.inputType = it],
          EmptyDestination, PlainSite) :
        h \in {Undefined} \cup {Some(x) : x \in HeadersOptions},
        r \in {Undefined, Some(""), Some(ReferrerOption)},
        it \in {Undefined, Some("html")}}

\* Device names outside the device table, the empty name among them.
DeviceNameCalls ==
    {Call("buffer", HttpsInput, [NoOptions EXCEPT !.emulateDevice = Some(dev)],
          EmptyDestination, PlainSite) :
        dev \in {"", "No Such Phone"}}

\* Sites that load quickly, slowly, or never go fully idle, against the
\* default timeout, no timeout, and timeouts of one and ten seconds.
TimeoutOptions == {Undefined, Some(0), Some(1), Some(10)}
TimeoutCalls ==
    {Call("buffer", HttpsInput,
          [SmallViewport EXCEPT !.timeout = t, !.waitForNetworkIdle = idle,
                                !.inputType = it],
          EmptyDestination, [PlainSite EXCEPT !.load = l]) :
        t \in TimeoutOptions,
        idle \in {Undefined, Some(TRUE)},
        it \in {Undefined, Some("html")},
        l \in Loads}

\* Full-page captures of sites that go idle late or never, so that the wait
\* after a scroll step runs into the timeout.
BusyScrollCalls ==
    {Call("buffer", HttpsInput,
          [SmallViewport EXCEPT !.fullPage = Some(TRUE), !.timeout = t],
          EmptyDestination,
          [PlainSite EXCEPT !.load = l, !.body = <<Some(h)>>]) :
        t \in {Undefined, Some(0), Some(1)},
        l \in {Load(Some(500), Some(5000)), Load(Some(500), Undefined)},
        h \in {150, 200}}

\* Pages that append content at every scroll step, for good: less than one
\* viewport height, exactly one, and more.
GrowingCalls ==
    {Call("buffer", HttpsInput,
          [SmallViewport EXCEPT !.fullPage = fp, !.preloadLazyContent = pl],
          EmptyDestination,
          [PlainSite EXCEPT !.body = <<Some(150)>>, !.grows = g]) :
        fp \in {Undefined, Some(TRUE)},
        pl \in {Undefined, Some(TRUE)},
        g \in {50, 100, 150}}

\* A full-page capture with a height of 0, of pages of every height.
ZeroHeightCalls ==
    {Call("buffer", HttpsInput,
          [SmallViewport EXCEPT !.height = Some(0), !.fullPage = Some(TRUE)],
          EmptyDestination,
          [PlainSite EXCEPT !.body = <<box>>]) :
        box \in BoundingBoxes}

\* A clip option without width, or with a negative height, alone and with an
\* inset that is 0, empty, or grows the rectangle.
EmptyClips == {Rect(0, 0, 0, 100), Rect(0, 0, 10, -5)}
EmptyClipCalls ==
    {Call("buffer", HttpsInput,
          [SmallViewport EXCEPT !.clip = Some(c), !.inset = i],
          EmptyDestination, PlainSite) :
        c \in EmptyClips,
        i \in {Undefined, Some(NumberInset(0)), Some(NumberInset(-10)),
               Some(ObjectInset(Undefined, Undefined, Undefined, Undefined))}}

\* Every image type with qualities below, inside and above [0, 1], and at
\* the halves where the rounding turns (in thousandths).
Qualities == {-200, 0, 4, 5, 500, 994, 995, 1000, 1500}
QualityCalls ==
    {Call("buffer", HttpsInput,
          [SmallViewport EXCEPT !.type = t, !.quality = q],
          EmptyDestination, PlainSite) :
        t \in {Undefined, Some("png"), Some("jpeg"), Some("webp")},
        q \in {Undefined} \cup {Some(n) : n \in Qualities}}

\* PDF output with scale factors below, inside and above the clamp, with and
\* without the pdf sub-options, and with insets of every size.
PdfCalls ==
    {Call("buffer", HttpsInput,
          [SmallViewport EXCEPT !.type = Some("pdf"), !.scaleFactor = sf, !.pdf = pdf,
                                !.inset = i, !.defaultBackground = bg],
          EmptyDestination, PlainSite) :
        sf \in {Undefined, Some(-1), Some(0), Some(1), Some(2), Some(3)},
        pdf \in {Undefined, Some(Pdf(Some(TRUE), Some("A4"), Some(FALSE), Some("1cm")))},
        i \in {Undefined, Some(NumberInset(0)), Some(NumberInset(10)),
               Some(NumberInset(50))},
        bg \in {Undefined, Some(FALSE)}}

\* Pages that log to the console, observed by a hook that returns or throws,
\* with and without debug.
ConsoleCalls ==
    {Call("buffer", HttpsInput,
          [SmallViewport EXCEPT !.onConsole = h, !.debug = d],
          EmptyDestination, [PlainSite EXCEPT !.console = 2]) :
        h \in {Undefined, Some("fn"), Some("throws")},
        d \in {Undefined, Some(TRUE)}}

\* The selectors of waitForElement and element, equal, different, empty and
\* absent, with and without the beforeScreenshot hook.
WaitCalls ==
    {Call(e, HttpsInput,
          [SmallViewport EXCEPT !.waitForElement = w, !.element = el,
                                !.beforeScreenshot = h],
          EmptyDestination, PlainSite) :
        e \in {"buffer", "file"},
        w \in {Undefined, Some(""), Some("#el"), Some("#wait")},
        el \in {Undefined, Some("#el")},
        h \in {Undefined, Some("returns")}}

\* file(): the destination and the overwrite option.
FileCalls ==
    {Call("file", HttpsInput, [SmallViewport EXCEPT !.overwrite = ow], d, PlainSite) :
        ow \in {Undefined, Some(FALSE), Some(TRUE)}, d \in Destinations}

\* Every option that adds a stage to the pipeline.
AllStagesOptions ==
    [SmallViewport EXCEPT
        !.preloadFunction = Some("fn"), !.authentication = Some("user"),
        !.cookies = Some(<<"id=unicorn">>),
        !.headers = Some({Header("x-powered-by", 1)}),
        !.userAgent = Some("agent"), !.emulateDevice = Some("iPhone X"),
        !.scaleFactor = Some(1),
        !.disableAnimations = Some(TRUE), !.hideElements = Some(<<".ad">>),
        !.removeElements = Some(<<".banner">>), !.clickElement = Some("button"),
        !.modules = Some(<<"a.js">>), !.scripts = Some(<<"b.js">>),
        !.styles = Some(<<"c.css">>), !.waitForElement = Some("#wait"),
        !.scrollToElement = Some("#target"), !.delay = Some(1),
        !.blockAds = Some(TRUE), !.isJavaScriptEnabled = Some(FALSE),
        !.debug = Some(TRUE), !.onConsole = Some("fn"),
        !.beforeNavigation = Some("returns"), !.beforeScreenshot = Some("returns")]

AllStagesCalls ==
    {Call("buffer", HttpsInput,
          [AllStagesOptions EXCEPT !.preloadLazyContent = pl, !.emulateDevice = dev,
                                   !.element = el],
          EmptyDestination, Site(Some(200), PlainSite.elementRect, <<Some(150)>>)) :
        pl \in {Undefined, Some(TRUE)},
        dev \in {Some("iPhone X"), Some("No Such Phone")},
        el \in {Undefined, Some("#wait"), Some("#el")}}

\* The JavaScript flag with and without modules and scripts to inject.
JavaScriptCalls ==
    {Call("buffer", HttpsInput,
          [SmallViewport EXCEPT !.isJavaScriptEnabled = js, !.modules = m,
                                !.scripts = sc, !.styles = Some(<<"c.css">>)],
          EmptyDestination, PlainSite) :
        js \in {Undefined, Some(FALSE), Some(TRUE)},
        m \in {Undefined, Some(<<>>), Some(<<"a.js">>)},
        sc \in {Undefined, Some(<<"b.js">>)}}

Calls ==
    ValidationCalls \cup EntryCalls \cup LifecycleCalls \cup HttpCalls
    \cup GeometryCalls \cup ScrollCalls \cup FileCalls \cup AllStagesCalls
    \cup JavaScriptCalls \cup DeviceScrollCalls \cup ReferrerCalls
    \cup DeviceNameCalls \cup TimeoutCalls \cup BusyScrollCalls
    \cup GrowingCalls \cup ZeroHeightCalls \cup EmptyClipCalls
    \cup QualityCalls \cup PdfCalls \cup ConsoleCalls \cup WaitCalls

-----------------------------------------------------------------------------
\* State after the call is made, before its first statement runs.

IdleScroll ==
    [pageHeight |-> 0, viewportIncrement |-> 0, y |-> 0,
     initialScrollPosition |-> Undefined, steps |-> 0]

\* The locals of a call that has not run a statement yet.
Fresh ==
    /\ browser = "none"
    /\ browserCloseCalls = 0
    /\ page = "none"
    /\ pageCloseCalls = 0
    /\ pageError = Undefined
    /\ crashAtSettle = Undefined
    /\ ops = <<>>
    /\ viewport = Undefined
    /\ javaScript = TRUE
    /\ response = Undefined
    /\ headers = Undefined
    /\ userAgent = Undefined
    /\ gotoOptions = Undefined
    /\ hookCalls = <<>>
    /\ consoleCalls = <<>>
    /\ adBlocking = FALSE
    /\ screenshotOptions = Undefined
    /\ elementRect = Undefined
    /\ shot = Undefined
    /\ printed = Undefined
    /\ result = Undefined
    /\ scroll = IdleScroll
    /\ pending = Pending
    /\ captured = Pending
    /\ outcome = Pending

\* No document is scrolled outside a call, and no batch is injected.
NoDocument == <<>>
NoBatch == <<>>

\* No options object is reused.
NotReused == <<>>

\* No concurrent calls.
NoSharedBrowser == [open |-> FALSE, pages |-> {}, made |-> 0]

Init ==
    /\ \E c \in Calls :
        /\ options = c.options
        /\ input = c.input
        /\ site = c.site
        /\ entry = c.entry
        /\ fs = c.fs
        /\ browserOpen = TruthyObj(c.options._browser)
    /\ pc = "start"
    /\ Fresh
    /\ sharedBrowser = NoSharedBrowser
    /\ concurrent = <<>>
    /\ reuse = NotReused
    /\ dom = NoDocument
    /\ batch = NoBatch

\* What a call is given; a single call has no concurrent calls beside it.
callVars == <<options, input, site, entry, sharedBrowser, concurrent, printed, reuse,
              consoleCalls, adBlocking, dom, batch>>
sessionVars == <<browser, browserOpen, browserCloseCalls, page, pageCloseCalls>>
pipeVars == <<viewport, javaScript, response, screenshotOptions, elementRect, shot,
              result, scroll>>
endVars == <<captured, fs, outcome>>
requestVars == <<headers, userAgent, gotoOptions, hookCalls>>

\* The pipeline (or the acquisition before it) completes: control passes to
\* the finally block of internalCaptureWebsite.
Complete(c) ==
    /\ pending' = c
    /\ crashAtSettle' = pageError
    /\ pc' = "closePage"

\* Continue with the next stage.
Goto(next) ==
    /\ pc' = next
    /\ UNCHANGED <<pending, crashAtSettle>>

\* A rejected operation that is issued again.
Retried(op) ==
    /\ pc' = pc
    /\ UNCHANGED <<pending, crashAtSettle>>

\* An awaited operation rejects: nothing catches the rejection, which leaves
\* the pipeline.
Rejected(op) == Complete(Throw(OpError(op)))

\* A stage that issues one page operation when its option asks for it; the
\* operation resolves, or rejects and aborts the pipeline.
Stage(here, gate, op, next) ==
    /\ pc = here
    /\ IF gate
          THEN /\ ops' = Append(ops, op)
               /\ \/ Goto(next)
                  \/ Rejected(op)
          ELSE /\ Goto(next)
               /\ UNCHANGED ops
    /\ UNCHANGED <<callVars, requestVars, sessionVars, pipeVars, endVars, pageError>>

-----------------------------------------------------------------------------
\* internalCaptureWebsite

\* validateOptions(options), before the try block: a failing assert rejects the
\* call at once.
Validate ==
    /\ pc = "start"
    /\ IF IsSet(validateOptions(options))
          THEN /\ captured' = Throw(Val(validateOptions(options)))
               /\ pc' = "captured"
          ELSE /\ pc' = "launch"
               /\ UNCHANGED captured
    /\ UNCHANGED <<callVars, requestVars, sessionVars, pipeVars, fs, outcome, pageError,
                   crashAtSettle, ops, pending>>

\* browser = options._browser || await puppeteer.launch(launchOptions)
Launch ==
    /\ pc = "launch"
    /\ IF TruthyObj(options._browser)
          THEN /\ browser' = "injected"
               /\ Goto("newPage")
               /\ UNCHANGED <<ops, browserOpen>>
          ELSE /\ ops' = Append(ops, "launch")
               /\ \/ /\ browser' = "launched"
                     /\ browserOpen' = TRUE
                     /\ Goto("newPage")
                  \/ /\ Complete(Throw(OpError("launch")))
                     /\ UNCHANGED <<browser, browserOpen>>
    /\ UNCHANGED <<callVars, requestVars, browserCloseCalls, page, pageCloseCalls, pipeVars,
                   endVars, pageError>>

\* page = await browser.newPage(); page.on('error', ...)
NewPage ==
    /\ pc = "newPage"
    /\ ops' = Append(ops, "newPage")
    /\ \/ /\ page' = "open"
          /\ Goto("blockAds")
       \/ /\ Complete(Throw(OpError("newPage")))
          /\ UNCHANGED page
    /\ UNCHANGED <<callVars, requestVars, browser, browserOpen, browserCloseCalls,
                   pageCloseCalls, pipeVars, endVars, pageError>>

\* The page emits 'error': the listener stores the error in pageError.
CrashError == Err("page crashed", {"page"}, 0)

PageCrash ==
    /\ page = "open"
    /\ pc \notin {"captured", "encode", "mkdir", "writeFile", "done"}
    /\ pageError # Some(CrashError)
    /\ pageError' = Some(CrashError)
    /\ UNCHANGED <<callVars, requestVars, sessionVars, pipeVars, endVars, pc, ops, pending,
                   crashAtSettle>>

\* The awaited steps of the ad blocker, in order: await fs.mkdir(cacheDirectory),
\* await PuppeteerBlocker.fromPrebuiltFull(...), await blocker.enableBlockingInPage(page)
AdBlockSteps == <<"mkdir(cacheDirectory)", "fromPrebuiltFull", "enableBlockingInPage">>

\* A catch that rethrows the error of the ad blocker.
AdBlockErrorRethrown(error) == Some(error)

\* catch { // Skip blocking if ad-blocker initialization fails }
AdBlockErrorCaught(error) == Undefined

\* if (options.blockAds) { try { ... enableBlockingInPage(page) } catch {} }:
\* every step resolves and the filter is attached, or the steps up to one that
\* rejects are made and its error is caught.
BlockAds ==
    /\ pc = "blockAds"
    /\ IF TruthyBool(options.blockAds)
          THEN \/ /\ ops' = ops \o AdBlockSteps
                  /\ adBlocking' = TRUE
                  /\ Goto("evaluateOnNewDocument")
               \/ \E failing \in 1 .. Len(AdBlockSteps) :
                     LET escaped == AdBlockErrorCaught(OpError(AdBlockSteps[failing])) IN
                     /\ ops' = ops \o SubSeq(AdBlockSteps, 1, failing)
                     /\ UNCHANGED adBlocking
                     /\ IF IsSet(escaped)
                           THEN Complete(Throw(Val(escaped)))
                           ELSE Goto("evaluateOnNewDocument")
          ELSE /\ UNCHANGED <<ops, adBlocking>>
               /\ Goto("evaluateOnNewDocument")
    /\ UNCHANGED <<options, input, site, entry, sharedBrowser, concurrent, printed, reuse,
                   dom, batch,
                   consoleCalls, requestVars, sessionVars, pipeVars, endVars, pageError>>

\* The finally block with page.close() outside a try: its rejection leaves the
\* block at once.
ClosePageUnguarded ==
    /\ pc = "closePage"
    /\ IF page # "none"
          THEN /\ pageCloseCalls' = pageCloseCalls + 1
               /\ ops' = Append(ops, "page.close")
               /\ \/ /\ page' = "closed"
                     /\ pc' = "closeBrowser"
                     /\ UNCHANGED captured
                  \/ /\ captured' = Throw(OpError("page.close"))
                     /\ pc' = "captured"
                     /\ UNCHANGED page
          ELSE /\ pc' = "closeBrowser"
               /\ UNCHANGED <<page, pageCloseCalls, ops, captured>>
    /\ UNCHANGED <<callVars, requestVars, browser, browserOpen, browserCloseCalls, pipeVars,
                   fs, outcome, pageError, pending, crashAtSettle>>

\* finally: if (page) { try { await page.close() } catch {} }
ClosePage ==
    /\ pc = "closePage"
    /\ IF page # "none"
          THEN /\ pageCloseCalls' = pageCloseCalls + 1
               /\ ops' = Append(ops, "page.close")
               /\ \/ page' = "closed"
                  \/ UNCHANGED page
          ELSE UNCHANGED <<page, pageCloseCalls, ops>>
    /\ pc' = "closeBrowser"
    /\ UNCHANGED <<callVars, requestVars, browser, browserOpen, browserCloseCalls, pipeVars,
                   endVars, pageError, pending, crashAtSettle>>

\* The browser test without its _keepAlive condition.
ClosesBrowserAlways(o, b) == b # "none"

\* finally: if (browser && !options._keepAlive) { try { await browser.close() } catch {} }
ClosesBrowser(o, b) == b # "none" /\ ~TruthyBool(o._keepAlive)

CloseBrowser ==
    /\ pc = "closeBrowser"
    /\ IF ClosesBrowser(options, browser)
          THEN /\ browserCloseCalls' = browserCloseCalls + 1
               /\ ops' = Append(ops, "browser.close")
               /\ \/ browserOpen' = FALSE
                  \/ UNCHANGED browserOpen
          ELSE UNCHANGED <<browserOpen, browserCloseCalls, ops>>
    /\ captured' = pending
    /\ pc' = "captured"
    /\ UNCHANGED <<callVars, requestVars, browser, page, pageCloseCalls, pipeVars, fs, outcome,
                   pageError, pending, crashAtSettle>>

-----------------------------------------------------------------------------
\* internalCaptureWebsiteCore, up to navigation

core == CoreOptions(options)

\* An error that wraps what a hook threw.
WrappedHookError(name) == Err("hook failed", {name}, 0)

\* The value a hook throws or rejects with.
HookError(name) == Err("thrown by hook", {name}, 0)

\* if (options.preloadFunction) await page.evaluateOnNewDocument(...)
EvaluateOnNewDocument ==
    Stage("evaluateOnNewDocument", TruthyStr(core.preloadFunction),
          "evaluateOnNewDocument", "setBypassCSP")

\* await page.setBypassCSP(true)
SetBypassCSP == Stage("setBypassCSP", TRUE, "setBypassCSP", "setJavaScriptEnabled")

\* await page.setJavaScriptEnabled(enabled)
SetJavaScript(here, enabled, next) ==
    /\ pc = here
    /\ ops' = Append(ops, "setJavaScriptEnabled")
    /\ \/ /\ javaScript' = enabled
          /\ next
       \/ /\ Complete(Throw(OpError("setJavaScriptEnabled")))
          /\ UNCHANGED javaScript
    /\ UNCHANGED <<callVars, requestVars, sessionVars, endVars, pageError, viewport, response,
                   screenshotOptions, elementRect, shot, result, scroll>>

\* if (options.debug) { page.on('console', ...); page.on('pageerror', ...) }
\* if (options.onConsole) page.on('console', ...)
Listeners(o) ==
    (IF TruthyBool(o.debug) THEN <<"on(console, debug)", "on(pageerror)">> ELSE <<>>)
    \o (IF TruthyObj(o.onConsole) THEN <<"on(console, onConsole)">> ELSE <<>>)

\* await page.setJavaScriptEnabled(options.isJavaScriptEnabled), and the
\* listeners attached when it has resolved.
SetJavaScriptEnabled ==
    /\ pc = "setJavaScriptEnabled"
    /\ \/ /\ javaScript' = TruthyBool(core.isJavaScriptEnabled)
          /\ ops' = Append(ops, "setJavaScriptEnabled") \o Listeners(core)
          /\ Goto("authenticate")
       \/ /\ ops' = Append(ops, "setJavaScriptEnabled")
          /\ Complete(Throw(OpError("setJavaScriptEnabled")))
          /\ UNCHANGED javaScript
    /\ UNCHANGED <<callVars, requestVars, sessionVars, endVars, pageError, viewport, response,
                   screenshotOptions, elementRect, shot, result, scroll>>

\* if (options.authentication) await page.authenticate(...)
Authenticate ==
    Stage("authenticate", TruthyStr(core.authentication), "authenticate", "setCookie")

\* if (options.cookies) await page.setCookie(...)
SetCookie == Stage("setCookie", TruthyObj(core.cookies), "setCookie", "setExtraHTTPHeaders")

\* headers = Object.fromEntries(entries.map(([key, value]) => [key, String(value)]))
\* with, when options.referrer is set, every key whose lower case is 'referer'
\* deleted.
ExtraHeadersKeepingReferer(o) == {<<h[1], String(h[2])>> : h \in Val(o.headers)}

ExtraHeaders(o) ==
    {<<h[1], String(h[2])>> :
        h \in {e \in Val(o.headers) :
                  ~(TruthyStr(o.referrer) /\ ToLowerCase(e[1]) = "referer")}}

\* if (options.headers) await page.setExtraHTTPHeaders(headers)
SetExtraHTTPHeaders ==
    /\ pc = "setExtraHTTPHeaders"
    /\ IF TruthyObj(core.headers)
          THEN /\ ops' = Append(ops, "setExtraHTTPHeaders")
               /\ headers' = Some(ExtraHeaders(core))
               /\ \/ Goto("setUserAgent")
                  \/ Complete(Throw(OpError("setExtraHTTPHeaders")))
          ELSE /\ Goto("setUserAgent")
               /\ UNCHANGED <<ops, headers>>
    /\ UNCHANGED <<callVars, sessionVars, pipeVars, endVars, pageError, userAgent,
                   gotoOptions, hookCalls>>

\* if (options.userAgent) await page.setUserAgent(options.userAgent)
SetUserAgent ==
    /\ pc = "setUserAgent"
    /\ IF TruthyStr(core.userAgent)
          THEN /\ ops' = Append(ops, "setUserAgent")
               /\ \/ /\ userAgent' = core.userAgent
                     /\ Goto("setViewport")
                  \/ /\ Complete(Throw(OpError("setUserAgent")))
                     /\ UNCHANGED userAgent
          ELSE /\ Goto("setViewport")
               /\ UNCHANGED <<ops, userAgent>>
    /\ UNCHANGED <<callVars, sessionVars, pipeVars, endVars, pageError, headers,
                   gotoOptions, hookCalls>>

\* if (options.clip) screenshotOptions.clip = options.clip;
\* await page.setViewport(viewportOptions)
SetViewport ==
    /\ pc = "setViewport"
    /\ ops' = Append(ops, "setViewport")
    /\ screenshotOptions' =
          [InitialScreenshotOptions(core) EXCEPT
              !.clip = IF TruthyObj(core.clip) THEN core.clip ELSE Undefined]
    /\ \/ /\ viewport' = Some([width |-> Val(core.width), height |-> Val(core.height),
                               deviceScaleFactor |-> Val(core.scaleFactor)])
          /\ Goto("emulate")
       \/ /\ Complete(Throw(OpError("setViewport")))
          /\ UNCHANGED viewport
    /\ UNCHANGED <<callVars, requestVars, sessionVars, endVars, pageError, javaScript, response,
                   elementRect, shot, result, scroll>>

\* Object.hasOwn(KnownDevices, name), and the test that takes every name.
IsKnownDeviceAlways(name) == TRUE
IsKnownDevice(name) == name \in KnownDevices

\* if (options.emulateDevice) { unknown name: throw; await page.emulate(device) }
Emulate ==
    /\ pc = "emulate"
    /\ IF ~TruthyStr(core.emulateDevice)
          THEN /\ Goto("emulateMediaFeatures")
               /\ UNCHANGED <<ops, viewport, userAgent>>
          ELSE IF ~IsKnownDevice(Val(core.emulateDevice))
          THEN /\ Complete(Throw(Err("device not supported",
                                      {Val(core.emulateDevice)}, 0)))
               /\ UNCHANGED <<ops, viewport, userAgent>>
          ELSE /\ ops' = Append(ops, "emulate")
               /\ \/ /\ viewport' = Some(DeviceViewport(Val(core.emulateDevice)))
                     /\ userAgent' = Some(DeviceUserAgent(Val(core.emulateDevice)))
                     /\ Goto("emulateMediaFeatures")
                  \/ /\ Complete(Throw(OpError("emulate")))
                     /\ UNCHANGED <<viewport, userAgent>>
    /\ UNCHANGED <<callVars, headers, gotoOptions, hookCalls, sessionVars, endVars, pageError, javaScript, response,
                   screenshotOptions, elementRect, shot, result, scroll>>

\* await page.emulateMediaFeatures([prefers-color-scheme])
EmulateMediaFeatures ==
    Stage("emulateMediaFeatures", TRUE, "emulateMediaFeatures", "beforeNavigation")

\* The arguments of a hook called with no arguments.
NoHookArguments(name) == [name |-> name, page |-> "none", browser |-> "none"]

\* hook(page, browser): the page and the browser internalCaptureWebsite handed
\* to the pipeline.
HookArguments(name) == [name |-> name, page |-> page, browser |-> browser]

\* A hook: not given, returns, or throws its own error.
Hook(here, hook, name, next) ==
    /\ pc = here
    /\ IF ~IsSet(hook)
          THEN /\ Goto(next)
               /\ UNCHANGED <<ops, hookCalls>>
          ELSE /\ ops' = Append(ops, name)
               /\ hookCalls' = Append(hookCalls, HookArguments(name))
               /\ IF Val(hook) = "throws"
                     THEN Complete(Throw(HookError(name)))
                     ELSE Goto(next)
    /\ UNCHANGED <<callVars, headers, userAgent, gotoOptions, sessionVars, pipeVars,
                   endVars, pageError>>

\* A listener without try/catch: the hook's error leaves it.
ConsoleErrorEscapes(error) == Some(error)

\* try { options.onConsole(message) } catch (error) { if (options.debug) console.error(...) }
ConsoleErrorCaught(error) == Undefined

\* The page emits 'console' while the onConsole listener is attached: the
\* listener hands the message to the hook.
ConsoleMessage ==
    /\ page = "open"
    /\ pc \notin {"captured", "encode", "mkdir", "writeFile", "done"}
    /\ \E i \in 1 .. Len(ops) : ops[i] = "on(console, onConsole)"
    /\ Len(consoleCalls) < site.console
    /\ consoleCalls' = Append(consoleCalls, Len(consoleCalls) + 1)
    /\ LET escaped == IF core.onConsole = Some("throws")
                          THEN ConsoleErrorCaught(HookError("onConsole"))
                          ELSE Undefined
       IN IF IsSet(escaped)
              THEN /\ pageError' = escaped
                   /\ UNCHANGED <<pc, pending, crashAtSettle>>
              ELSE UNCHANGED <<pc, pending, crashAtSettle, pageError>>
    /\ UNCHANGED <<options, input, site, entry, sharedBrowser, concurrent, printed, reuse,
                   dom, batch,
                   adBlocking, requestVars, sessionVars, pipeVars, endVars, ops>>

\* if (options.beforeNavigation) await options.beforeNavigation(page, browser)
BeforeNavigation ==
    Hook("beforeNavigation", core.beforeNavigation, "beforeNavigation", "navigate")

HttpError(status) == Err("HTTP", {"status"}, status)

\* The statements between the navigation and the injection of modules and
\* scripts, with the click moved to the front.
MutationsClickFirst ==
    <<"click", "disableAnimations", "hideElements", "removeElements",
      "enableJavaScript">>

\* The statements between the navigation and the injection of modules and
\* scripts, in the order of the source.
Mutations ==
    <<"disableAnimations", "hideElements", "removeElements", "click",
      "enableJavaScript">>

\* The statement that follows one of them.
FollowingMutation(here) ==
    Mutations[1 + CHOOSE i \in 1 .. Len(Mutations) - 1 : Mutations[i] = here]

\* What the awaited navigation leaves behind: the response goto resolved with
\* (null when there is none), and undefined from setContent.
Navigated(resp) ==
    /\ response' = resp
    /\ IF HttpErrorThrown(core, CoreInput(options, input), resp)
          THEN Complete(Throw(HttpError(Val(resp))))
          ELSE Goto(Mutations[1])

\* The timeout without its conversion to milliseconds.
timeoutInSeconds(o) == Val(o.timeout)

\* const timeoutInMilliseconds = options.timeout * 1000
timeoutInMilliseconds(o) == Val(o.timeout) * 1000

\* gotoOptions = {timeout, waitUntil: waitForNetworkIdle ? 'networkidle0' : 'networkidle2'}
\* if (options.referrer && !isHTMLContent) gotoOptions.referer = options.referrer
GotoOptions(o) ==
    [timeout |-> timeoutInMilliseconds(o),
     waitUntil |-> IF TruthyBool(o.waitForNetworkIdle)
                      THEN "networkidle0" ELSE "networkidle2",
     referer |-> IF TruthyStr(o.referrer) /\ o.inputType # Some("html")
                    THEN o.referrer
                    ELSE Undefined]

\* The browser's TimeoutError for an operation.
TimeoutError(op) == Err("TimeoutError", {op}, 0)

\* The browser's navigation under {timeout, waitUntil}: it resolves when the
\* site reaches the waitUntil condition, and rejects with a TimeoutError when
\* the timeout (0: none) passes first.  With neither it stays pending.
ReachesWaitUntil(go, load) ==
    IF ~IsSet(load[go.waitUntil]) THEN FALSE
    ELSE IF go.timeout = 0 THEN TRUE
    ELSE Val(load[go.waitUntil]) <= go.timeout
NavigationTimesOut(go, load) ==
    IF go.timeout = 0 THEN FALSE
    ELSE IF ~IsSet(load[go.waitUntil]) THEN TRUE
    ELSE Val(load[go.waitUntil]) > go.timeout

\* const response = await page[isHTMLContent ? 'setContent' : 'goto'](input, gotoOptions);
\* followed by the throwOnHttpError check.
Navigate ==
    /\ pc = "navigate"
    /\ ops' = Append(ops, IF isHTMLContent(options) THEN "setContent" ELSE "goto")
    /\ gotoOptions' = Some(GotoOptions(core))
    /\ \/ /\ ReachesWaitUntil(GotoOptions(core), site.load)
          /\ IF isHTMLContent(options)
                THEN Navigated(Undefined)
                ELSE Navigated(site.status)
       \/ /\ NavigationTimesOut(GotoOptions(core), site.load)
          /\ Complete(Throw(TimeoutError("navigate")))
          /\ UNCHANGED response
       \/ /\ Complete(Throw(OpError("navigate")))
          /\ UNCHANGED response
    /\ UNCHANGED <<callVars, headers, userAgent, hookCalls, sessionVars, endVars, pageError, viewport, javaScript,
                   screenshotOptions, elementRect, shot, result, scroll>>

-----------------------------------------------------------------------------
\* internalCaptureWebsiteCore, from navigation to the element measurement

\* if (options.disableAnimations) await page.evaluate(disableAnimations)
DisableAnimations ==
    Stage("disableAnimations", TruthyBool(core.disableAnimations), "disableAnimations",
          FollowingMutation("disableAnimations"))

NonEmptyArray(o) == IsSet(o) /\ Len(Val(o)) > 0

\* if (Array.isArray(options.hideElements) && length > 0) await page.addStyleTag(...)
HideElements ==
    Stage("hideElements", NonEmptyArray(core.hideElements), "hideElements",
          FollowingMutation("hideElements"))

\* the same for options.removeElements
RemoveElements ==
    Stage("removeElements", NonEmptyArray(core.removeElements), "removeElements",
          FollowingMutation("removeElements"))

\* if (options.clickElement) await page.click(...)
Click == Stage("click", TruthyStr(core.clickElement), "click", FollowingMutation("click"))

\* !options.isJavaScriptEnabled && (options.modules?.length || options.scripts?.length)
needsTemporaryJS(o) ==
    ~TruthyBool(o.isJavaScriptEnabled)
    /\ (NonEmptyArray(o.modules) \/ NonEmptyArray(o.scripts))

\* if (needsTemporaryJS) await page.setJavaScriptEnabled(true)
EnableJavaScript ==
    IF needsTemporaryJS(core)
        THEN SetJavaScript("enableJavaScript", TRUE, Goto("modules"))
        ELSE /\ pc = "enableJavaScript"
             /\ Goto("modules")
             /\ UNCHANGED <<callVars, requestVars, sessionVars, pipeVars, endVars, pageError, ops>>

\* A batch inside the try block: await Promise.all(list.map(addScriptTag)).  A
\* rejection is kept while the finally block restores the JavaScript flag.
Inject(here, list, op, next) ==
    /\ pc = here
    /\ IF NonEmptyArray(list)
          THEN /\ ops' = Append(ops, op)
               /\ \/ /\ pc' = next
                     /\ UNCHANGED pending
                  \/ /\ pc' = "restoreJavaScript"
                     /\ pending' = Throw(OpError(op))
          ELSE /\ pc' = next
               /\ UNCHANGED <<ops, pending>>
    /\ UNCHANGED <<callVars, requestVars, sessionVars, pipeVars, endVars, pageError, crashAtSettle>>

Modules == Inject("modules", core.modules, "addScriptTag(module)", "scripts")
Scripts == Inject("scripts", core.scripts, "addScriptTag(script)", "restoreJavaScript")

\* Leaving a finally block: rethrow what the try block threw, or go on.
Leave(next) == IF pending.kind = "throw" THEN Complete(pending) ELSE Goto(next)

\* The restore as a statement after the try block, not in a finally block: it
\* is skipped when the injection threw.
RestoreJavaScriptAfterSuccess ==
    IF needsTemporaryJS(core) /\ pending.kind # "throw"
        THEN SetJavaScript("restoreJavaScript", FALSE, Leave("styles"))
        ELSE /\ pc = "restoreJavaScript"
             /\ Leave("styles")
             /\ UNCHANGED <<callVars, requestVars, sessionVars, pipeVars, endVars,
                            pageError, ops>>

\* finally { if (needsTemporaryJS) await page.setJavaScriptEnabled(false) }
RestoreJavaScript ==
    IF needsTemporaryJS(core)
        THEN SetJavaScript("restoreJavaScript", FALSE, Leave("styles"))
        ELSE /\ pc = "restoreJavaScript"
             /\ Leave("styles")
             /\ UNCHANGED <<callVars, requestVars, sessionVars, pipeVars, endVars, pageError, ops>>

\* if (options.styles) await Promise.all(styles.map(addStyleTag))
Styles == Stage("styles", NonEmptyArray(core.styles), "addStyleTag", "waitForElement")

\* The statements from the waitForElement wait to scrollToElement, with the
\* hook moved behind the element measurement.
StatementsWithHookLast ==
    <<"waitForElement", "waitForSelector", "delay", "measureElement",
      "beforeScreenshot", "scrollToElement">>

\* The statements from the waitForElement wait to scrollToElement, in the
\* order of the source.
Statements ==
    <<"waitForElement", "beforeScreenshot", "waitForSelector", "delay",
      "measureElement", "scrollToElement">>

\* The statement that follows a statement.
Following(here) ==
    Statements[1 + CHOOSE i \in 1 .. Len(Statements) - 1 : Statements[i] = here]

\* A gate of the waitForElement wait that ignores options.element.
WaitsWheneverSet(o) == TruthyStr(o.waitForElement)

\* options.waitForElement && options.waitForElement !== options.element
WaitsSeparately(o) == TruthyStr(o.waitForElement) /\ o.waitForElement # o.element

\* if (options.waitForElement && options.waitForElement !== options.element)
\*     await page.waitForSelector(options.waitForElement, {visible, timeout})
WaitForElement ==
    Stage("waitForElement", WaitsSeparately(core),
          "waitForSelector(waitForElement)", Following("waitForElement"))

\* if (options.beforeScreenshot) await options.beforeScreenshot(page, browser)
BeforeScreenshot ==
    Hook("beforeScreenshot", core.beforeScreenshot, "beforeScreenshot",
         Following("beforeScreenshot"))

\* if (options.element) await page.waitForSelector(options.element, ...)
WaitForSelector ==
    Stage("waitForSelector", TruthyStr(core.element), "waitForSelector(element)",
          Following("waitForSelector"))

\* if (options.delay) await setTimeout(options.delay * 1000)
Delay ==
    /\ pc = "delay"
    /\ ops' = IF TruthyNum(core.delay) THEN Append(ops, "delay") ELSE ops
    /\ Goto(Following("delay"))
    /\ UNCHANGED <<callVars, requestVars, sessionVars, pipeVars, endVars, pageError>>

\* The element clip without screenshotOptions.fullPage = false.
ElementClipKeepingFullPage(so, rect) == [so EXCEPT !.clip = Some(rect)]

\* screenshotOptions after the element has been measured.
ElementClip(so, rect) == [so EXCEPT !.clip = Some(rect), !.fullPage = Some(FALSE)]

\* if (options.element) { screenshotOptions.clip = await page.$eval(element,
\* getBoundingClientRect); screenshotOptions.fullPage = false }
MeasureElement ==
    /\ pc = "measureElement"
    /\ IF TruthyStr(core.element)
          THEN /\ ops' = Append(ops, "getBoundingClientRect")
               /\ \/ /\ elementRect' = Some(site.elementRect)
                     /\ screenshotOptions' =
                           ElementClip(screenshotOptions, site.elementRect)
                     /\ Goto(Following("measureElement"))
                  \/ /\ Complete(Throw(OpError("getBoundingClientRect")))
                     /\ UNCHANGED <<elementRect, screenshotOptions>>
          ELSE /\ Goto(Following("measureElement"))
               /\ UNCHANGED <<ops, elementRect, screenshotOptions>>
    /\ UNCHANGED <<callVars, requestVars, sessionVars, endVars, pageError, viewport, javaScript,
                   response, shot, result, scroll>>

-----------------------------------------------------------------------------
\* Scroll to element and the scroll-and-wait loop

\* Where the window may stand after scrollToElement.
ScrollTargets == {0, 40}

\* if (options.scrollToElement) await page.$eval(target, scrollToElement, ...)
ScrollToElement ==
    /\ pc = "scrollToElement"
    /\ IF TruthyStr(core.scrollToElement)
          THEN /\ ops' = Append(ops, "scrollToElement")
               /\ \/ \E y \in ScrollTargets :
                        /\ scroll' = [scroll EXCEPT !.y = y]
                        /\ Goto("queryBody")
                  \/ /\ Complete(Throw(OpError("scrollToElement")))
                     /\ UNCHANGED scroll
          ELSE /\ Goto("queryBody")
               /\ UNCHANGED <<ops, scroll>>
    /\ UNCHANGED <<callVars, requestVars, sessionVars, endVars, pageError, viewport, javaScript,
                   response, screenshotOptions, elementRect, shot, result>>

\* viewportOptions.height
viewportHeight == Val(core.height)

\* bodyHandle.boundingBox() after the given number of scroll steps.
BodyBox(steps) ==
    LET last == site.body[Len(site.body)] IN
    IF steps + 1 <= Len(site.body) THEN site.body[steps + 1]
    ELSE IF IsSet(last) THEN Some(Val(last) + site.grows * (steps + 1 - Len(site.body)))
    ELSE last

\* An operation of the loop's try block rejects: finally disposes the handle.
LoopFails(op) ==
    /\ pending' = Throw(OpError(op))
    /\ pc' = "dispose"
    /\ UNCHANGED <<crashAtSettle, scroll>>

scrollFrame == <<callVars, requestVars, sessionVars, endVars, pageError, viewport, javaScript,
                 response, screenshotOptions, elementRect, shot,
                 result>>

\* if (shouldScrollToLoadContent) { const bodyHandle = await page.$('body') ... }
QueryBody ==
    /\ pc = "queryBody"
    /\ IF shouldScrollToLoadContent(core, screenshotOptions)
          THEN /\ ops' = Append(ops, "$(body)")
               /\ \/ Goto("boundingBox")
                  \/ Goto("inset")
                  \/ Complete(Throw(OpError("$(body)")))
          ELSE /\ Goto("inset")
               /\ UNCHANGED ops
    /\ UNCHANGED <<scrollFrame, scroll>>

\* The loop test with < in place of <=.
LoopTestStrict(sc) ==
    IF sc.viewportIncrement + viewportHeight < sc.pageHeight THEN "scrollBy" ELSE "restore"

\* while (viewportIncrement + viewportHeight <= pageHeight)
LoopTest(sc) ==
    IF sc.viewportIncrement + viewportHeight <= sc.pageHeight THEN "scrollBy" ELSE "restore"

\* let bodyBoundingBox = await bodyHandle.boundingBox(), before the try block:
\* its rejection leaves the pipeline without disposing of the handle.
\* if (bodyBoundingBox && bodyBoundingBox.height > viewportOptions.height) { ... }
BoundingBox ==
    /\ pc = "boundingBox"
    /\ ops' = Append(ops, "boundingBox")
    /\ \/ LET box == BodyBox(0) IN
            IF IsSet(box) /\ Val(box) > viewportHeight
                THEN /\ scroll' = [scroll EXCEPT !.pageHeight = Val(box),
                                                 !.viewportIncrement = 0]
                     /\ Goto(IF TruthyBool(screenshotOptions.fullPage)
                                THEN LoopTest(scroll')
                                ELSE "savePosition")
                ELSE /\ Goto("dispose")
                     /\ UNCHANGED scroll
       \/ /\ Complete(Throw(OpError("boundingBox")))
          /\ UNCHANGED scroll
    /\ UNCHANGED scrollFrame

\* if (!screenshotOptions.fullPage) initialScrollPosition = await page.evaluate(...)
SavePosition ==
    /\ pc = "savePosition"
    /\ ops' = Append(ops, "evaluate(scrollPosition)")
    /\ \/ /\ scroll' = [scroll EXCEPT !.initialScrollPosition = Some(scroll.y)]
          /\ Goto(LoopTest(scroll))
       \/ LoopFails("evaluate(scrollPosition)")
    /\ UNCHANGED scrollFrame

\* await page.evaluate(h => window.scrollBy(0, h), viewportHeight)
ScrollBy ==
    /\ pc = "scrollBy"
    /\ scroll.steps < MaxSteps
    /\ ops' = Append(ops, "scrollBy")
    /\ \/ /\ scroll' = [scroll EXCEPT !.y = @ + viewportHeight, !.steps = @ + 1]
          /\ Goto("waitForNetworkIdle")
       \/ LoopFails("scrollBy")
    /\ UNCHANGED scrollFrame

\* page.waitForNetworkIdle({timeout: timeoutInMilliseconds}): what it waits for
\* and how long.
IdleOptions(o) == [timeout |-> timeoutInMilliseconds(o), waitUntil |-> "networkidle0"]

\* The errors the wait may reject with: its TimeoutError when the network is
\* not idle in time, and any other error.
IdleErrors ==
    {OpError("waitForNetworkIdle")}
    \cup (IF NavigationTimesOut(IdleOptions(core), site.load)
             THEN {TimeoutError("waitForNetworkIdle")}
             ELSE {})

\* A catch block that rethrows whatever it catches.
RethrownAlways(error) == TRUE

\* catch (error) { if (!(error instanceof puppeteer.errors.TimeoutError)) throw error }
Rethrown(error) == error.kind # "TimeoutError"

\* await waitForIdleAfterScroll(): the wait resolves, or rejects with an error
\* that is swallowed or rethrown.
WaitForNetworkIdle ==
    /\ pc = "waitForNetworkIdle"
    /\ ops' = Append(ops, "waitForNetworkIdle")
    /\ \/ /\ ReachesWaitUntil(IdleOptions(core), site.load)
          /\ Goto("settle")
          /\ UNCHANGED scroll
       \/ \E error \in IdleErrors :
             IF Rethrown(error)
                 THEN /\ pending' = Throw(error)
                      /\ pc' = "dispose"
                      /\ UNCHANGED <<crashAtSettle, scroll>>
                 ELSE /\ Goto("settle")
                      /\ UNCHANGED scroll
    /\ UNCHANGED scrollFrame

\* await setTimeout(100)
SettleDelay ==
    /\ pc = "settle"
    /\ Goto("remeasure")
    /\ UNCHANGED <<scrollFrame, scroll, ops>>

\* const updatedBoundingBox = await bodyHandle.boundingBox(); pageHeight grows to
\* a larger measurement; viewportIncrement += viewportHeight
Remeasured(sc, box) ==
    [sc EXCEPT !.pageHeight = IF IsSet(box) /\ Val(box) > @ THEN Val(box) ELSE @,
               !.viewportIncrement = @ + viewportHeight]

Remeasure ==
    /\ pc = "remeasure"
    /\ ops' = Append(ops, "boundingBox")
    /\ \/ /\ scroll' = Remeasured(scroll, BodyBox(scroll.steps))
          /\ Goto(LoopTest(scroll'))
       \/ LoopFails("boundingBox")
    /\ UNCHANGED scrollFrame

\* A restore that always goes to the top.
RestoreToTop(sc, so) == 0

\* fullPage: window.scrollTo(0, 0); otherwise back to the saved position.
RestorePosition(sc, so) ==
    IF TruthyBool(so.fullPage) THEN 0
    ELSE IF IsSet(sc.initialScrollPosition) THEN Val(sc.initialScrollPosition)
    ELSE sc.y

Restore ==
    /\ pc = "restore"
    /\ ops' = Append(ops, "scrollTo")
    /\ \/ /\ scroll' = [scroll EXCEPT !.y = RestorePosition(scroll, screenshotOptions)]
          /\ Goto("dispose")
       \/ LoopFails("scrollTo")
    /\ UNCHANGED scrollFrame

\* finally { await bodyHandle.dispose() }
Dispose ==
    /\ pc = "dispose"
    /\ ops' = Append(ops, "dispose")
    /\ \/ Leave("inset")
       \/ Complete(Throw(OpError("dispose")))
    /\ UNCHANGED <<scrollFrame, scroll>>

-----------------------------------------------------------------------------
\* Inset and output extraction

GeometryError == Err("width or height cannot be <= 0", {"clip"}, 0)

\* The rectangle page.evaluate gives for the window: innerWidth x innerHeight at (0, 0).
WindowRect == Rect(0, 0, Val(viewport).width, Val(viewport).height)

\* The geometry test with < in place of <=.
ClipIsNegative(clip) == clip.width < 0 \/ clip.height < 0

\* if (width <= 0 || height <= 0)
ClipIsEmpty(clip) == clip.width <= 0 \/ clip.height <= 0

\* The inset clip is stored, or the geometry error is thrown.
InsetFrom(clipOptions) ==
    LET clip == ApplyInset(clipOptions, InsetEdges(Val(core.inset))) IN
    IF ClipIsEmpty(clip)
        THEN /\ Complete(Throw(GeometryError))
             /\ UNCHANGED screenshotOptions
        ELSE /\ screenshotOptions' = [screenshotOptions EXCEPT !.clip = Some(clip)]
             /\ Goto("extract")

\* if (options.inset && !screenshotOptions.fullPage) { ... }
Inset ==
    /\ pc = "inset"
    /\ IF ~InsetApplies(core, screenshotOptions)
          THEN /\ Goto("extract")
               /\ UNCHANGED <<ops, screenshotOptions>>
          ELSE IF IsSet(screenshotOptions.clip)
          THEN /\ InsetFrom(Val(screenshotOptions.clip))
               /\ UNCHANGED ops
          ELSE /\ ops' = Append(ops, "evaluate(innerSize)")
               /\ \/ InsetFrom(WindowRect)
                  \/ /\ Complete(Throw(OpError("evaluate(innerSize)")))
                     /\ UNCHANGED screenshotOptions
    /\ UNCHANGED <<callVars, requestVars, sessionVars, endVars, pageError, viewport, javaScript,
                   response, elementRect, shot, result, scroll>>

\* The first bytes of what the browser renders for each type.
Rendered(type) ==
    CASE type = Some("pdf") -> <<37, 80, 68, 70>>
      [] type = Some("jpeg") -> <<255, 216, 255>>
      [] OTHER -> <<137, 80, 78, 71>>

\* What page.screenshot and page.pdf resolve with is typed Uint8Array: in a
\* given build of the browser library it is a Node.js Buffer, or a Uint8Array
\* that is not a Buffer.
BinaryClasses == {"Buffer", "Uint8Array"}
Binary(class, bytes) == [class |-> class, bytes |-> bytes]

\* The return without the pageError test.
CapturedIgnoringCrash(buffer) == Return(buffer)

\* The pipeline returned result: if (pageError) throw pageError; return result
Captured(buffer) ==
    IF IsSet(pageError) THEN Throw(Val(pageError)) ELSE Return(buffer)

\* The scale without the clamp (in tenths).
PdfScaleUnclamped(scaleFactor) == 10 * scaleFactor

\* Math.max(0.1, Math.min(2, options.scaleFactor)), in tenths.
PdfScale(scaleFactor) == Max(1, Min(20, 10 * scaleFactor))

\* const pdfOptions = {printBackground: options.pdf?.background ?? false}, and
\* the fields added to it under their conditions.
PdfOptions(o) ==
    LET pdf == Coalesce(o.pdf, NoPdf) IN
    [printBackground |-> Coalesce(pdf.background, FALSE),
     format |-> IF TruthyStr(pdf.format) THEN pdf.format ELSE Undefined,
     landscape |-> IF IsSet(pdf.landscape) THEN Some(TruthyBool(pdf.landscape))
                   ELSE Undefined,
     margin |-> IF TruthyObj(pdf.margin) THEN pdf.margin ELSE Undefined,
     scale |-> IF TruthyNum(o.scaleFactor) THEN Some(PdfScale(Val(o.scaleFactor)))
               ELSE Undefined,
     omitBackground |-> IF IsSet(o.defaultBackground)
                           THEN Some(~Val(o.defaultBackground))
                           ELSE Undefined]

\* buffer = type === 'pdf' ? await page.pdf(pdfOptions) : await page.screenshot(screenshotOptions)
Extract ==
    /\ pc = "extract"
    /\ IF core.type = Some("pdf")
          THEN /\ ops' = Append(ops, "pdf")
               /\ printed' = Some(PdfOptions(core))
               /\ UNCHANGED shot
               /\ \/ \E class \in BinaryClasses :
                        LET buffer == Some(Binary(class, Rendered(core.type))) IN
                        /\ result' = Some(buffer)
                        /\ Complete(Captured(buffer))
                  \/ /\ Complete(Throw(OpError("pdf")))
                     /\ UNCHANGED result
          ELSE /\ ops' = Append(ops, "screenshot")
               /\ shot' = Some(screenshotOptions)
               /\ UNCHANGED printed
               /\ \/ \E class \in BinaryClasses :
                        LET buffer == Some(Binary(class, Rendered(core.type))) IN
                        /\ result' = Some(buffer)
                        /\ Complete(Captured(buffer))
                  \/ /\ Complete(Throw(OpError("screenshot")))
                     /\ UNCHANGED result
    /\ UNCHANGED <<options, input, site, entry, sharedBrowser, concurrent, reuse,
                   dom, batch,
                   consoleCalls, adBlocking, requestVars, sessionVars, endVars, pageError, viewport, javaScript,
                   response, screenshotOptions, elementRect, scroll>>

-----------------------------------------------------------------------------
\* The entry points

Base64Alphabet ==
    <<"A", "B", "C", "D", "E", "F", "G", "H", "I", "J", "K", "L", "M", "N", "O", "P",
      "Q", "R", "S", "T", "U", "V", "W", "X", "Y", "Z", "a", "b", "c", "d", "e", "f",
      "g", "h", "i", "j", "k", "l", "m", "n", "o", "p", "q", "r", "s", "t", "u", "v",
      "w", "x", "y", "z", "0", "1", "2", "3", "4", "5", "6", "7", "8", "9", "+", "/">>

Base64Char(n) == Base64Alphabet[n + 1]

\* screenshot.toString('base64')
RECURSIVE toBase64(_)
toBase64(bytes) ==
    IF Len(bytes) = 0 THEN <<>>
    ELSE IF Len(bytes) = 1 THEN
        <<Base64Char(bytes[1] \div 4), Base64Char((bytes[1] % 4) * 16), "=", "=">>
    ELSE IF Len(bytes) = 2 THEN
        <<Base64Char(bytes[1] \div 4),
          Base64Char((bytes[1] % 4) * 16 + bytes[2] \div 16),
          Base64Char((bytes[2] % 16) * 4), "=">>
    ELSE
        <<Base64Char(bytes[1] \div 4),
          Base64Char((bytes[1] % 4) * 16 + bytes[2] \div 16),
          Base64Char((bytes[2] % 16) * 4 + bytes[3] \div 64),
          Base64Char(bytes[3] % 64)>>
        \o toBase64(SubSeq(bytes, 4, Len(bytes)))

Digits == <<"0", "1", "2", "3", "4", "5", "6", "7", "8", "9">>

\* Number.prototype.toString of a byte.
RECURSIVE ToDecimal(_)
ToDecimal(n) ==
    IF n < 10 THEN <<Digits[n + 1]>>
    ELSE Append(ToDecimal(n \div 10), Digits[(n % 10) + 1])

\* Uint8Array.prototype.toString, which takes no encoding: the elements in
\* decimal, joined by commas.
RECURSIVE Join(_)
Join(bytes) ==
    IF Len(bytes) = 0 THEN <<>>
    ELSE IF Len(bytes) = 1 THEN ToDecimal(bytes[1])
    ELSE ToDecimal(bytes[1]) \o <<",">> \o Join(Tail(bytes))

\* screenshot.toString('base64'): the method of the value's own class.
toString(binary) ==
    IF binary.class = "Buffer" THEN toBase64(binary.bytes) ELSE Join(binary.bytes)

\* A file() that goes on to the directory whatever the capture did.
ReachesMkdirAlways(e, c) == e = "file"

\* const screenshot = await internalCaptureWebsite(url, options) in file():
\* the statements behind it run only when the capture resolved.
ReachesMkdir(e, c) == e = "file" /\ c.kind = "return"

\* buffer(): new Uint8Array(await internalCaptureWebsite(url, options));
\* base64(): screenshot.toString('base64'); file(): goes on to write the file.
Encode ==
    /\ pc = "captured"
    /\ IF ReachesMkdir(entry, captured)
          THEN /\ pc' = "mkdir"
               /\ UNCHANGED outcome
          ELSE IF captured.kind = "throw"
          THEN /\ outcome' = captured
               /\ pc' = "done"
          ELSE IF entry = "buffer"
          THEN /\ outcome' = Return(Val(captured.value).bytes)
               /\ pc' = "done"
          ELSE /\ outcome' = Return(toString(Val(captured.value)))
               /\ pc' = "done"
    /\ UNCHANGED <<callVars, requestVars, sessionVars, pipeVars, captured, fs, pageError,
                   crashAtSettle, ops, pending>>

\* await fs.mkdir(path.dirname(filePath), {recursive: true})
Mkdir ==
    /\ pc = "mkdir"
    /\ \/ /\ fs' = [fs EXCEPT !.dir = TRUE]
          /\ pc' = "writeFile"
          /\ UNCHANGED outcome
       \/ /\ outcome' = Throw(OpError("mkdir"))
          /\ pc' = "done"
          /\ UNCHANGED fs
    /\ UNCHANGED <<callVars, requestVars, sessionVars, pipeVars, captured, pageError,
                   crashAtSettle, ops, pending>>

\* The flag 'w' whatever the overwrite option is.
WriteFlagAlwaysW(o) == "w"

\* flag: options.overwrite ? 'w' : 'wx'
WriteFlag(o) == IF TruthyBool(o.overwrite) THEN "w" ELSE "wx"

\* await fs.writeFile(filePath, screenshot, {flag}): with 'wx' the write fails
\* when the path exists.
WriteFile ==
    /\ pc = "writeFile"
    /\ pc' = "done"
    /\ IF WriteFlag(options) = "wx" /\ IsSet(fs.file)
          THEN /\ outcome' = Throw(Err("EEXIST", {"writeFile"}, 0))
               /\ UNCHANGED fs
          ELSE \/ /\ fs' = [fs EXCEPT !.file = Some(Val(captured.value).bytes)]
                  /\ outcome' = Return(<<>>)
               \/ /\ outcome' = Throw(OpError("writeFile"))
                  /\ UNCHANGED fs
    /\ UNCHANGED <<callVars, requestVars, sessionVars, pipeVars, captured, pageError,
                   crashAtSettle, ops, pending>>

-----------------------------------------------------------------------------
Next ==
    \/ Validate \/ Launch \/ NewPage \/ PageCrash \/ ConsoleMessage \/ BlockAds
    \/ EvaluateOnNewDocument \/ SetBypassCSP \/ SetJavaScriptEnabled
    \/ Authenticate \/ SetCookie \/ SetExtraHTTPHeaders \/ SetUserAgent
    \/ SetViewport \/ Emulate \/ EmulateMediaFeatures \/ BeforeNavigation
    \/ Navigate \/ DisableAnimations \/ HideElements \/ RemoveElements \/ Click
    \/ EnableJavaScript \/ Modules \/ Scripts \/ RestoreJavaScript \/ Styles
    \/ WaitForElement \/ BeforeScreenshot \/ WaitForSelector \/ Delay
    \/ MeasureElement \/ ScrollToElement \/ QueryBody \/ BoundingBox
    \/ SavePosition \/ ScrollBy \/ WaitForNetworkIdle \/ SettleDelay \/ Remeasure
    \/ Restore \/ Dispose \/ Inset \/ Extract
    \/ ClosePage \/ CloseBrowser \/ Encode \/ Mkdir \/ WriteFile

Spec == Init /\ [][Next]_vars

\* Every awaited operation settles: the call takes its next step.
FairSpec == Spec /\ WF_vars(Next)

-----------------------------------------------------------------------------
\* Concurrent calls that are all given one browser as options._browser.  Each
\* call runs internalCaptureWebsite; the pipeline is reduced to two operations
\* on the call's page, the navigation and the extraction.

SharedCalls == 1 .. MaxCalls

\* The options of a concurrent call: the shared handle, with or without _keepAlive.
SharedOptions(keepAlive) ==
    [NoOptions EXCEPT !._browser = Some("shared"), !._keepAlive = keepAlive]

\* let browser; let page; before the try block.
SharedCall(keepAlive) ==
    [options |-> SharedOptions(keepAlive), pc |-> "launch", browser |-> "none",
     page |-> 0, pending |-> Pending, outcome |-> Pending]

\* The variables of the single call, which is not running.
runVars == <<options, input, site, pc, browser, browserOpen, browserCloseCalls, page,
              pageCloseCalls, pageError, crashAtSettle, ops, viewport, javaScript,
              response, screenshotOptions, elementRect, shot, result, scroll,
              pending, captured, fs, entry, outcome, headers, userAgent,
              gotoOptions, hookCalls, printed>>
mainVars == <<runVars, consoleCalls, adBlocking, dom, batch>>
soloVars == <<mainVars, reuse>>

SharedInit ==
    /\ sharedBrowser = [open |-> TRUE, pages |-> {}, made |-> 0]
    /\ concurrent \in
          [SharedCalls -> {SharedCall(k) : k \in {Undefined, Some(FALSE), Some(TRUE)}}]
    /\ options = NoOptions
    /\ input = HttpsInput
    /\ site = PlainSite
    /\ entry = "buffer"
    /\ fs = EmptyDestination
    /\ browserOpen = FALSE
    /\ pc = "idle"
    /\ Fresh
    /\ reuse = NotReused
    /\ dom = NoDocument
    /\ batch = NoBatch

\* Call i moves to a position, with new values of some of its locals.
SharedStep(i, next, locals) ==
    concurrent' =
        [concurrent EXCEPT ![i] =
            [k \in DOMAIN @ |->
                IF k = "pc" THEN next
                ELSE IF k \in DOMAIN locals THEN locals[k] ELSE @[k]]]

\* page.close() closing every page of the browser.
PagesAfterClosingAll(pages, p) == {}

\* page.close(): the page is gone from the browser.
PagesAfterClose(pages, p) == pages \ {p}

\* An operation on a page resolves while the page is open in a running browser.
PageUsable(b, p) == b.open /\ p \in b.pages

\* browser = options._browser || await puppeteer.launch(launchOptions)
SharedLaunch(i) ==
    /\ concurrent[i].pc = "launch"
    /\ TruthyObj(concurrent[i].options._browser)
    /\ SharedStep(i, "newPage", [browser |-> "injected"])
    /\ UNCHANGED <<sharedBrowser, soloVars>>

\* page = await browser.newPage(): a new page of the browser, or a rejection
\* when the browser is closed.
SharedNewPage(i) ==
    /\ concurrent[i].pc = "newPage"
    /\ IF sharedBrowser.open
          THEN /\ sharedBrowser' =
                     [sharedBrowser EXCEPT !.made = @ + 1,
                                           !.pages = @ \cup {sharedBrowser.made + 1}]
               /\ SharedStep(i, "navigate", [page |-> sharedBrowser.made + 1])
          ELSE /\ SharedStep(i, "closePage", [pending |-> Throw(OpError("newPage"))])
               /\ UNCHANGED sharedBrowser
    /\ UNCHANGED soloVars

\* An awaited operation of internalCaptureWebsiteCore on the call's page.
SharedOperate(i, here, op, next, completion) ==
    /\ concurrent[i].pc = here
    /\ IF PageUsable(sharedBrowser, concurrent[i].page)
          THEN SharedStep(i, next, [pending |-> completion])
          ELSE SharedStep(i, "closePage", [pending |-> Throw(OpError(op))])
    /\ UNCHANGED <<sharedBrowser, soloVars>>

SharedNavigate(i) == SharedOperate(i, "navigate", "navigate", "extract", Pending)
SharedExtract(i) ==
    SharedOperate(i, "extract", "screenshot", "closePage",
                  Return(Some(Binary("Buffer", Rendered(Undefined)))))

\* finally: if (page) { try { await page.close() } catch {} }
SharedClosePage(i) ==
    /\ concurrent[i].pc = "closePage"
    /\ sharedBrowser' =
          IF concurrent[i].page # 0
              THEN [sharedBrowser EXCEPT
                       !.pages = PagesAfterClose(@, concurrent[i].page)]
              ELSE sharedBrowser
    /\ SharedStep(i, "closeBrowser", <<>>)
    /\ UNCHANGED soloVars

\* finally: if (browser && !options._keepAlive) { try { await browser.close() } catch {} }
\* browser.close() closes the browser and every page in it.
SharedCloseBrowser(i) ==
    /\ concurrent[i].pc = "closeBrowser"
    /\ sharedBrowser' =
          IF ClosesBrowser(concurrent[i].options, concurrent[i].browser)
              THEN [sharedBrowser EXCEPT !.open = FALSE, !.pages = {}]
              ELSE sharedBrowser
    /\ SharedStep(i, "done", [outcome |-> concurrent[i].pending])
    /\ UNCHANGED soloVars

SharedNext ==
    \E i \in SharedCalls :
        \/ SharedLaunch(i) \/ SharedNewPage(i) \/ SharedNavigate(i)
        \/ SharedExtract(i) \/ SharedClosePage(i) \/ SharedCloseBrowser(i)

SharedSpec == SharedInit /\ [][SharedNext]_vars

-----------------------------------------------------------------------------
\* Calls made one after the other with one options object.  The part of
\* internalCaptureWebsite that runs before its first await: the merge, the
\* launch options, and the call of puppeteer.launch.

\* A launchOptions object: {headless, slowMo, args}, each optional.
LaunchOptions(headless, slowMo, args) ==
    [headless |-> headless, slowMo |-> slowMo, args |-> args]

\* The launchOptions objects a caller may supply (none: the option is absent).
CallerLaunchOptions ==
    {Undefined,
     Some(LaunchOptions(Undefined, Undefined, Undefined)),
     Some(LaunchOptions(Some(TRUE), Undefined, Undefined)),
     Some(LaunchOptions(Some(FALSE), Undefined, Undefined)),
     Some(LaunchOptions(Undefined, Some(50), Undefined)),
     Some(LaunchOptions(Undefined, Undefined, Some(<<>>))),
     Some(LaunchOptions(Some(TRUE), Undefined, Some(<<"--no-sandbox">>)))}

\* The caller's options object; launchOptions is the nested object it refers to.
CallerOptions(launchOptions, allowCORS, debug) ==
    [launchOptions |-> launchOptions, allowCORS |-> allowCORS, debug |-> debug]

\* launchOptions: {headless: true}, the default of the merge.
DefaultLaunchOptions == LaunchOptions(Some(TRUE), Undefined, Undefined)

\* The arguments pushed for allowCORS.
CorsArgs ==
    <<"--disable-web-security", "--disable-features=IsolateOrigins",
      "--disable-site-isolation-trials", "--allow-file-access-from-files">>

\* if (options.allowCORS) { launchOptions.args ||= []; launchOptions.args.push(...) }
\* if (options.debug) { launchOptions.headless = false; launchOptions.slowMo = 100 }
Configured(launchOptions, o) ==
    LET cors == IF TruthyBool(o.allowCORS)
                   THEN [launchOptions EXCEPT
                            !.args = Some(Coalesce(@, <<>>) \o CorsArgs)]
                   ELSE launchOptions
    IN IF TruthyBool(o.debug)
           THEN [cors EXCEPT !.headless = Some(FALSE), !.slowMo = Some(100)]
           ELSE cors

\* The main call and the concurrent calls are not running.
NotRunning ==
    /\ options = NoOptions
    /\ input = HttpsInput
    /\ site = PlainSite
    /\ entry = "buffer"
    /\ fs = EmptyDestination
    /\ browserOpen = FALSE
    /\ pc = "idle"
    /\ Fresh
    /\ sharedBrowser = NoSharedBrowser
    /\ concurrent = <<>>

ReuseInit ==
    /\ \E l \in CallerLaunchOptions, cors \in {Undefined, Some(TRUE)},
          debug \in {Undefined, Some(TRUE)} :
          reuse = [callerOptions |-> CallerOptions(l, cors, debug),
                   original |-> CallerOptions(l, cors, debug),
                   launches |-> <<>>]
    /\ NotRunning
    /\ dom = NoDocument
    /\ batch = NoBatch

\* One call: options = {launchOptions: {headless: true}, ...options};
\* const {launchOptions} = options is the caller's nested object when the
\* caller supplied one, and the fresh default otherwise; it is configured in
\* place and handed to puppeteer.launch.
ReuseCall ==
    /\ Len(reuse.launches) < MaxReuse
    /\ LET caller == reuse.callerOptions
           supplied == IsSet(caller.launchOptions)
           launchOptions ==
               Configured(IF supplied THEN Val(caller.launchOptions)
                          ELSE DefaultLaunchOptions, caller)
       IN reuse' = [reuse EXCEPT
                       !.callerOptions.launchOptions =
                           IF supplied THEN Some(launchOptions) ELSE @,
                       !.launches = Append(@, launchOptions)]
    /\ UNCHANGED <<mainVars, sharedBrowser, concurrent>>

ReuseNext == ReuseCall

ReuseSpec == ReuseInit /\ [][ReuseNext]_vars

-----------------------------------------------------------------------------
\* scrollToElement(element, options), the function page.$eval runs in the
\* document.  The document is the chain of elements from the target (first)
\* through its parentElement links to the root (last); behind the root the
\* link is null.

\* An element: its scroll and client sizes and its getBoundingClientRect().
Element(scrollWidth, scrollHeight, rect) ==
    [scrollWidth |-> scrollWidth, scrollHeight |-> scrollHeight,
     clientWidth |-> 100, clientHeight |-> 100, rect |-> rect]

ClientRect(left, top, right, bottom) ==
    [left |-> left, top |-> top, right |-> right, bottom |-> bottom]

\* The rectangle of the element at a place of the chain.
RectAt(i) ==
    IF i = 1 THEN ClientRect(30, 50, 50, 60)
    ELSE IF i = 2 THEN ClientRect(10, 20, 110, 120)
    ELSE ClientRect(0, 0, 100, 100)

\* Content that fits its box, is taller, or is wider.
ScrollSizes == {<<100, 100>>, <<100, 200>>, <<200, 100>>}

Chains ==
    UNION {{[i \in 1 .. n |-> Element(sizes[i][1], sizes[i][2], RectAt(i))] :
                sizes \in [1 .. n -> ScrollSizes]} : n \in 1 .. MaxDepth}

\* The second argument: absent for a selector string, the option object else.
ScrollOptions ==
    {Undefined}
    \cup {Some([offsetFrom |-> from, offset |-> offset]) :
            from \in {Undefined, Some("top"), Some("left"), Some("bottom"),
                      Some("right"), Some("center")},
            offset \in {Undefined, Some(10)}}

\* element.scrollHeight > element.clientHeight || element.scrollWidth > element.clientWidth
isOverflown(element) ==
    \/ element.scrollHeight > element.clientHeight
    \/ element.scrollWidth > element.clientWidth

\* options?.offsetFrom ?? 'top' and options?.offset ?? 0
OffsetFrom(o) == IF IsSet(o) THEN Coalesce(Val(o).offsetFrom, "top") ELSE "top"
Offset(o) == IF IsSet(o) THEN Coalesce(Val(o).offset, 0) ELSE 0

\* The argument of parent.scrollTo({left: x, top: y}); not set for an
\* offsetFrom the switch does not know.
ScrollPosition(rect, parentRect, parent, from, offset) ==
    LET localLeft == rect.left - parentRect.left
        localTop == rect.top - parentRect.top
    IN  IF from = "top" THEN Some([left |-> localLeft, top |-> localTop + offset])
        ELSE IF from = "left" THEN Some([left |-> localLeft + offset, top |-> localTop])
        ELSE IF from = "bottom"
            THEN Some([left |-> localLeft,
                       top |-> (rect.bottom - parentRect.top) - parent.clientHeight - offset])
        ELSE IF from = "right"
            THEN Some([left |-> (rect.right - parentRect.left) - parent.clientWidth - offset,
                       top |-> localTop])
        ELSE Undefined

\* A method called on the element at a place of the chain.
DomCall(on, method, argument) == [on |-> on, method |-> method, argument |-> argument]

\* page.$eval(selector, scrollToElement, options): the function is entered
\* with the target as the first candidate.
ScrollInit ==
    /\ \E chain \in Chains, o \in ScrollOptions :
          dom = [chain |-> chain, options |-> o, pc |-> "findScrollParent",
                 candidate |-> 1, parent |-> Undefined, calls |-> <<>>,
                 error |-> Undefined]
    /\ NotRunning
    /\ reuse = NotReused
    /\ batch = NoBatch

\* findScrollParent(element): undefined at null, the element when it
\* overflows, the answer for element.parentElement otherwise.
FindScrollParent ==
    /\ dom.pc = "findScrollParent"
    /\ IF dom.candidate > Len(dom.chain)
          THEN dom' = [dom EXCEPT !.pc = "scroll"]
          ELSE IF isOverflown(dom.chain[dom.candidate])
          THEN dom' = [dom EXCEPT !.parent = Some(dom.candidate), !.pc = "scroll"]
          ELSE dom' = [dom EXCEPT !.candidate = dom.candidate + 1]
    /\ UNCHANGED <<runVars, consoleCalls, adBlocking, reuse, batch, sharedBrowser,
                   concurrent>>

\* if (!parent) { element.scrollIntoView({block: 'start', inline: 'nearest'}); return; }
ScrollIntoView ==
    /\ dom.pc = "scroll"
    /\ ~IsSet(dom.parent)
    /\ dom' = [dom EXCEPT
                  !.calls = Append(dom.calls, DomCall(1, "scrollIntoView", "start, nearest")),
                  !.pc = "returned"]
    /\ UNCHANGED <<runVars, consoleCalls, adBlocking, reuse, batch, sharedBrowser,
                   concurrent>>

\* parent.scrollIntoView(true), the switch on offsetFrom, parent.scrollTo
ScrollParent ==
    /\ dom.pc = "scroll"
    /\ IsSet(dom.parent)
    /\ LET parent == Val(dom.parent)
           aligned == Append(dom.calls, DomCall(parent, "scrollIntoView", "true"))
           position == ScrollPosition(dom.chain[1].rect, dom.chain[parent].rect,
                                      dom.chain[parent], OffsetFrom(dom.options),
                                      Offset(dom.options))
       IN IF IsSet(position)
             THEN dom' = [dom EXCEPT
                            !.calls = Append(aligned, DomCall(parent, "scrollTo", Val(position))),
                            !.pc = "returned"]
             ELSE dom' = [dom EXCEPT
                            !.calls = aligned,
                            !.error = Some(Err("Invalid value", {"scrollToElement.offsetFrom"}, 0)),
                            !.pc = "thrown"]
    /\ UNCHANGED <<runVars, consoleCalls, adBlocking, reuse, batch, sharedBrowser,
                   concurrent>>

ScrollNext == FindScrollParent \/ ScrollIntoView \/ ScrollParent

ScrollSpec == ScrollInit /\ [][ScrollNext]_vars

-----------------------------------------------------------------------------
\* The injection of modules, scripts and styles, each entry followed from the
\* call of page.addScriptTag / page.addStyleTag to its settling.  The call
\* stands behind `if (needsTemporaryJS) await page.setJavaScriptEnabled(true)`;
\* the stages between the styles and the end of the core are left out.

\* The entries of the list a batch is made from.
Entries(name) == {<<name, i>> : i \in 1 .. batch.lists[name]}

\* Where the call stands behind a batch that resolved, and behind one that
\* rejected: modules and scripts are inside try { } finally { }.
AfterBatch(name) ==
    IF name = "modules" THEN "scripts" ELSE IF name = "scripts" THEN "restore"
    ELSE "closePage"
AfterRejection(name) == IF name = "styles" THEN "closePage" ELSE "restore"

\* !options.isJavaScriptEnabled && (options.modules?.length || options.scripts?.length)
NeedsTemporaryJS(enabled, lists) ==
    ~enabled /\ (lists["modules"] > 0 \/ lists["scripts"] > 0)

BatchInit ==
    /\ \E lists \in [{"modules", "scripts", "styles"} -> 0 .. MaxEntries],
          enabled \in BOOLEAN :
          batch = [lists |-> lists,
                   temporaryJS |-> NeedsTemporaryJS(enabled, lists),
                   javaScript |-> (enabled \/ NeedsTemporaryJS(enabled, lists)),
                   pc |-> "modules", awaiting |-> FALSE,
                   inFlight |-> {}, rejected |-> {}, error |-> Undefined,
                   page |-> "open"]
    /\ NotRunning
    /\ reuse = NotReused
    /\ dom = NoDocument

\* options.modules.map(module_ => page.addScriptTag(...)): every entry of the
\* list is started, then Promise.all of them is awaited.
BatchStart ==
    /\ batch.pc \in {"modules", "scripts", "styles"}
    /\ ~batch.awaiting
    /\ batch' = [batch EXCEPT !.inFlight = batch.inFlight \cup Entries(batch.pc),
                              !.awaiting = TRUE]
    /\ UNCHANGED <<runVars, consoleCalls, adBlocking, reuse, dom, sharedBrowser,
                   concurrent>>

\* One injection resolves or rejects, whatever the call is doing.
BatchEntrySettles ==
    /\ \E e \in batch.inFlight :
          \/ batch' = [batch EXCEPT !.inFlight = batch.inFlight \ {e}]
          \/ batch' = [batch EXCEPT !.inFlight = batch.inFlight \ {e},
                                    !.rejected = batch.rejected \cup {e}]
    /\ UNCHANGED <<runVars, consoleCalls, adBlocking, reuse, dom, sharedBrowser,
                   concurrent>>

\* await Promise.all(...): resolves when every entry resolved, rejects with
\* the first rejection without waiting for the other entries.
BatchAwait ==
    /\ batch.pc \in {"modules", "scripts", "styles"}
    /\ batch.awaiting
    /\ IF batch.rejected \cap Entries(batch.pc) # {}
          THEN \E e \in batch.rejected \cap Entries(batch.pc) :
                 batch' = [batch EXCEPT !.error = Some(e), !.awaiting = FALSE,
                                        !.pc = AfterRejection(batch.pc)]
          ELSE /\ batch.inFlight \cap Entries(batch.pc) = {}
               /\ batch' = [batch EXCEPT !.awaiting = FALSE, !.pc = AfterBatch(batch.pc)]
    /\ UNCHANGED <<runVars, consoleCalls, adBlocking, reuse, dom, sharedBrowser,
                   concurrent>>

\* finally { if (needsTemporaryJS) await page.setJavaScriptEnabled(false) }
BatchRestore ==
    /\ batch.pc = "restore"
    /\ batch' = [batch EXCEPT
                    !.javaScript = IF batch.temporaryJS THEN FALSE ELSE batch.javaScript,
                    !.pc = IF IsSet(batch.error) THEN "closePage" ELSE "styles"]
    /\ UNCHANGED <<runVars, consoleCalls, adBlocking, reuse, dom, sharedBrowser,
                   concurrent>>

\* finally { if (page) await page.close() } of internalCaptureWebsite
BatchClosePage ==
    /\ batch.pc = "closePage"
    /\ batch' = [batch EXCEPT !.page = "closed", !.pc = "settle"]
    /\ UNCHANGED <<runVars, consoleCalls, adBlocking, reuse, dom, sharedBrowser,
                   concurrent>>

\* The call returns, or rejects with the error of the injection.
BatchSettle ==
    /\ batch.pc = "settle"
    /\ batch' = [batch EXCEPT !.pc = "done"]
    /\ UNCHANGED <<runVars, consoleCalls, adBlocking, reuse, dom, sharedBrowser,
                   concurrent>>

BatchNext ==
    \/ BatchStart \/ BatchEntrySettles \/ BatchAwait \/ BatchRestore
    \/ BatchClosePage \/ BatchSettle

BatchSpec == BatchInit /\ [][BatchNext]_vars

-----------------------------------------------------------------------------
\* Properties

\* internalCaptureWebsite has settled; the whole call has settled.
CaptureSettled == pc \in {"captured", "mkdir", "writeFile", "done"}
CallSettled == pc = "done"

\* The call failed (or, before it settles, is bound to fail) with error e.
FailsWith(e) ==
    /\ CaptureSettled => captured = Throw(e)
    /\ CallSettled => outcome = Throw(e)

\* Operations issued before the finally block.
SessionOps == SelectSeq(ops, LAMBDA op : op \notin {"page.close", "browser.close"})

\* C1: a call (file, buffer or base64) with clip and element, or clip and
\* fullPage, fails with the mutual-exclusivity error naming the two options;
\* no browser is launched, no page is opened (also not on an injected
\* browser) and no operation is issued.
C1_Conflict ==
    TruthyObj(options.clip)
    /\ (TruthyStr(options.element) \/ TruthyBool(options.fullPage))

C1_ClipConflictFailsBeforeBrowser ==
    C1_Conflict =>
        /\ ops = <<>> /\ browser = "none" /\ page = "none"
        /\ pc \in {"start", "captured", "done"}
        /\ \/ TruthyStr(options.element)
              /\ FailsWith(Err("mutually exclusive", {"clip", "element"}, 0))
           \/ TruthyBool(options.fullPage)
              /\ FailsWith(Err("mutually exclusive", {"clip", "fullPage"}, 0))

C1_Witness ==
    /\ CallSettled /\ entry = "file" /\ TruthyObj(options._browser)
    /\ TruthyObj(options.clip) /\ TruthyBool(options.fullPage)
    /\ ~TruthyStr(options.element)
    /\ outcome.kind = "throw" /\ ops = <<>>

\* C2: with type 'pdf', a call in which clip, element or quality is set, to
\* whatever value, fails before any browser session is created, with a
\* validation error that names an offending option.
C2_Offending ==
    {k \in {"clip", "element", "quality"} : IsSet(options[k])}

C2_PdfRejectsEverySetOption ==
    (options.type = Some("pdf") /\ C2_Offending # {}) =>
        /\ ops = <<>> /\ browser = "none" /\ page = "none"
        /\ pc \in {"start", "captured", "done"}
        /\ CaptureSettled =>
              /\ captured.kind = "throw"
              /\ captured.error.names \cap C2_Offending # {}

\* C3: once a page has been opened, page.close() is called before the call
\* settles, on every exit path; once a browser is held, browser.close() is
\* called before the call settles unless _keepAlive is set, also when
\* page.close() failed.
C3_CleanupOnEveryExit ==
    CaptureSettled =>
        /\ page # "none" => pageCloseCalls = 1
        /\ (browser # "none" /\ ~TruthyBool(options._keepAlive)) =>
              browserCloseCalls = 1

C3_Witness ==
    /\ CallSettled
    /\ page = "open" /\ pageCloseCalls = 1
    /\ browserCloseCalls = 1 /\ ~browserOpen
    /\ outcome = Throw(HookError("beforeScreenshot"))

\* C4 as stated: the call never closes an injected browser.
C4_NeverClosesInjectedBrowser ==
    browser = "injected" => browserCloseCalls = 0

\* C4, amended: with an injected browser the call closes the page it opened,
\* and the injected browser is left alone exactly when _keepAlive is set:
\* without _keepAlive the call closes the injected browser too.
C4_InjectedBrowserClosedUnlessKeptAlive ==
    browser = "injected" =>
        /\ TruthyBool(options._keepAlive) => (browserCloseCalls = 0 /\ browserOpen)
        /\ CaptureSettled =>
              /\ page # "none" => pageCloseCalls = 1
              /\ ~TruthyBool(options._keepAlive) => browserCloseCalls = 1

C4_Witness ==
    /\ CallSettled /\ browser = "injected" /\ TruthyBool(options._keepAlive)
    /\ page = "closed" /\ pageCloseCalls = 1
    /\ browserCloseCalls = 0 /\ browserOpen
    /\ outcome.kind = "return"

\* C5 as stated: a crash event during the capture makes the call fail with
\* the crash error once the pipeline settles.
C5_CrashErrorAlwaysSurfaces ==
    (CaptureSettled /\ IsSet(crashAtSettle)) => captured = Throw(Val(crashAtSettle))

\* C5, amended: a crash event before the pipeline settles makes the call fail
\* and return no buffer; the error is the crash error when the pipeline itself
\* produced a buffer, and the pipeline's own error when the pipeline failed.
C5_CrashFailsTheCall ==
    (CaptureSettled /\ IsSet(crashAtSettle)) =>
        /\ captured.kind = "throw" /\ captured.value = NoBuffer
        /\ IsSet(result) => captured.error = Val(crashAtSettle)
        /\ ~IsSet(result) => (captured = pending /\ captured.error # Val(crashAtSettle))
        /\ CallSettled => outcome = captured

C5_Witness ==
    /\ CallSettled /\ IsSet(result) /\ IsSet(crashAtSettle)
    /\ outcome = Throw(CrashError)

\* C6: with throwOnHttpError, an http:// or https:// URL input whose
\* navigation response is not 2xx makes the call fail with an error carrying
\* the status code; nothing is done on the page after the navigation except
\* closing it, nothing is extracted, and the page is closed.
C6_Applies ==
    /\ TruthyBool(options.throwOnHttpError)
    /\ options.inputType # Some("html")
    /\ input.prefix \in {"http://", "https://"}
    /\ IsSet(response)
    /\ (Val(response) < 200 \/ Val(response) > 299)

C6_HttpErrorAbortsCapture ==
    C6_Applies =>
        /\ pending = Throw(HttpError(Val(response)))
        /\ pending.error.status = Val(site.status)
        /\ FailsWith(pending.error)
        /\ SessionOps[Len(SessionOps)] = "goto"
        /\ ~IsSet(shot) /\ ~IsSet(result)
        /\ CaptureSettled => pageCloseCalls = 1

C6_Witness ==
    /\ C6_Applies /\ CallSettled /\ input.prefix = "http://"
    /\ outcome = Throw(HttpError(404)) /\ page = "closed"

\* C7: the HTTP-status check never fails a call for literal HTML, for
\* local-file inputs (file URLs, and paths, which become file URLs) and for
\* data: inputs, whatever throwOnHttpError is; and without throwOnHttpError
\* it fails no call at all: after a non-2xx response the pipeline goes on, so
\* that an operation that fails it is one issued after the navigation (the
\* geometry error, which no operation raises, aside).
C7_Exempt ==
    \/ options.inputType = Some("html")
    \/ input.prefix \notin {"http://", "https://"}
    \/ ~TruthyBool(options.throwOnHttpError)

C7_NoHttpErrorWhenExempt ==
    C7_Exempt =>
        /\ pending.error.kind # "HTTP"
        /\ captured.error.kind # "HTTP"
        /\ outcome.error.kind # "HTTP"
        /\ (IsSet(response) /\ pending.kind = "throw" /\ pending.error # GeometryError)
              => SessionOps[Len(SessionOps)] \notin {"goto", "setContent"}

C7_Witness ==
    /\ CallSettled /\ outcome.kind = "return" /\ IsSet(shot)
    /\ IsSet(response) /\ Val(response) = 404
    /\ TruthyBool(options.throwOnHttpError) /\ input.prefix = "./"

\* The clip the claims give for an inset: each edge is the number, or the
\* value of the named edge, a missing edge counting as 0.
ClaimEdge(inset, edge) ==
    IF inset.isNumber THEN inset.n
    ELSE IF inset[edge] = Undefined THEN 0 ELSE inset[edge][1]

ClaimClip(base, inset) ==
    [x |-> base.x + ClaimEdge(inset, "left"),
     y |-> base.y + ClaimEdge(inset, "top"),
     width |-> base.width - (ClaimEdge(inset, "left") + ClaimEdge(inset, "right")),
     height |-> base.height - (ClaimEdge(inset, "top") + ClaimEdge(inset, "bottom"))]

\* inset is given and is not the number 0.
ClaimInsetGiven ==
    options.inset # Undefined /\ options.inset # Some(NumberInset(0))

\* C8: with element set, the screenshot is taken with full-page capture off
\* and with the element's bounding rectangle as its clip, whatever fullPage
\* is; inset is applied to that rectangle as if fullPage were false.
C8_ElementWinsOverFullPage ==
    (TruthyStr(options.element) /\ IsSet(shot)) =>
        /\ Val(shot).fullPage = Some(FALSE)
        /\ elementRect = Some(site.elementRect)
        /\ Val(shot).clip =
              IF ClaimInsetGiven
                  THEN Some(ClaimClip(site.elementRect, Val(options.inset)))
                  ELSE Some(site.elementRect)

C8_Witness ==
    /\ TruthyStr(options.element) /\ options.fullPage = Some(TRUE)
    /\ options.inset = Some(NumberInset(10))
    /\ IsSet(shot) /\ Val(shot).clip = Some(Rect(10, 40, 80, 480))
    /\ CallSettled /\ outcome.kind = "return"

\* C9: with fullPage: true and no element, inset is ignored: the screenshot
\* is taken without a clip and as a full-page capture, and the call never
\* fails with the geometry error, for every inset.
C9_InsetIgnoredForFullPage ==
    (options.fullPage = Some(TRUE) /\ ~TruthyStr(options.element)) =>
        /\ IsSet(shot) =>
              (Val(shot).clip = Undefined /\ Val(shot).fullPage = Some(TRUE))
        /\ pending.error # GeometryError
        /\ outcome.error # GeometryError
        /\ \A i \in 1 .. Len(ops) : ops[i] # "evaluate(innerSize)"

C9_Witness ==
    /\ options.fullPage = Some(TRUE) /\ ~TruthyStr(options.element)
    /\ options.inset = Some(NumberInset(MaxInset))
    /\ IsSet(shot) /\ CallSettled /\ outcome.kind = "return"

\* C10: when inset applies (given, not the number 0, and the capture is not a
\* full-page capture), the final clip is the base rectangle moved by (left,
\* top) and reduced by left + right and top + bottom, the base being the
\* element rectangle, else the clip option, else the viewport at (0, 0);
\* non-negative edges give a clip inside the base, non-positive edges a clip
\* that contains it.
C10_Base ==
    IF TruthyStr(options.element) THEN site.elementRect
    ELSE IF IsSet(options.clip) THEN Val(options.clip)
    ELSE [x |-> 0, y |-> 0, width |-> Val(viewport).width,
          height |-> Val(viewport).height]

C10_Inside(a, b) ==
    /\ a.x >= b.x /\ a.y >= b.y
    /\ a.x + a.width <= b.x + b.width
    /\ a.y + a.height <= b.y + b.height

C10_Edges == {ClaimEdge(Val(options.inset), e) : e \in {"top", "right", "bottom", "left"}}

C10_InsetClip ==
    (/\ ClaimInsetGiven
     /\ (options.fullPage # Some(TRUE) \/ TruthyStr(options.element))
     /\ pc = "extract" \/ IsSet(shot)) =>
        LET final == Val(screenshotOptions.clip) IN
        /\ screenshotOptions.clip # Undefined
        /\ final = ClaimClip(C10_Base, Val(options.inset))
        /\ IsSet(shot) => Val(shot).clip = Some(final)
        /\ (\A e \in C10_Edges : e >= 0) => C10_Inside(final, C10_Base)
        /\ (\A e \in C10_Edges : e <= 0) => C10_Inside(C10_Base, final)

C10_Witness ==
    /\ options.inset = Some(ObjectInset(Some(0), Some(20), Some(MaxInset), Some(-80)))
    /\ ~TruthyStr(options.element) /\ ~IsSet(options.clip)
    /\ TruthyStr(options.emulateDevice)
    /\ IsSet(shot)
    /\ Val(shot).clip = Some(Rect(-80, 0, 435, 812 - MaxInset))
    /\ CallSettled /\ outcome.kind = "return"

\* C11: when inset applies and the clip it gives has a width or a height of 0
\* or less, the pipeline never reaches output extraction: no screenshot or pdf
\* is taken, nothing is returned, and a call that got as far as the inset
\* fails with the geometry error, its page closed.
C11_EmptyClip ==
    /\ ClaimInsetGiven
    /\ (options.fullPage # Some(TRUE) \/ TruthyStr(options.element))
    /\ IsSet(viewport)
    /\ LET clip == ClaimClip(C10_Base, Val(options.inset)) IN
       clip.width <= 0 \/ clip.height <= 0

C11_EmptyClipFailsWithGeometryError ==
    C11_EmptyClip =>
        /\ pc # "extract" /\ ~IsSet(shot) /\ ~IsSet(result)
        /\ \A i \in 1 .. Len(ops) : ops[i] \notin {"screenshot", "pdf"}
        /\ pending.kind # "return" /\ captured.kind # "return"
        /\ outcome.kind # "return"
        /\ (CaptureSettled /\ pending.kind = "throw"
            /\ pending.error.kind \notin {"operation failed", "thrown by hook",
                                          "device not supported", "HTTP"})
              => /\ captured = Throw(GeometryError)
                 /\ pageCloseCalls = 1
                 /\ CallSettled => outcome = Throw(GeometryError)

C11_Witness ==
    /\ C11_EmptyClip /\ options.inset = Some(NumberInset(50))
    /\ ~TruthyStr(options.element) /\ ~IsSet(options.clip)
    /\ Val(viewport).width = 100
    /\ CallSettled /\ outcome = Throw(GeometryError)
    /\ page = "closed" /\ pageCloseCalls = 1

\* How often an operation was issued, and where in ops it was issued first
\* (0 when it was not).
ClaimCount(op) == Cardinality({i \in 1 .. Len(ops) : ops[i] = op})
ClaimFirst(names) ==
    IF \E i \in 1 .. Len(ops) : ops[i] \in names
        THEN CHOOSE i \in 1 .. Len(ops) :
                /\ ops[i] \in names
                /\ \A j \in 1 .. i - 1 : ops[j] \notin names
        ELSE 0
ClaimNavigation == ClaimFirst({"goto", "setContent"})
ClaimExtraction == ClaimFirst({"screenshot", "pdf"})

\* C12: a hook that is not given is never invoked and a given one at most
\* once; once navigation has started a given beforeNavigation has been invoked
\* exactly once, before it; once the output is extracted a given
\* beforeScreenshot has been invoked exactly once, after the navigation and
\* before the extraction; beforeNavigation comes before beforeScreenshot; and
\* every invocation receives the open page and the browser of the call.
C12_HooksOnceInOrder ==
    LET bn == ClaimFirst({"beforeNavigation"})
        bs == ClaimFirst({"beforeScreenshot"})
    IN
    /\ ClaimCount("beforeNavigation") <= (IF IsSet(options.beforeNavigation) THEN 1 ELSE 0)
    /\ ClaimCount("beforeScreenshot") <= (IF IsSet(options.beforeScreenshot) THEN 1 ELSE 0)
    /\ (IsSet(options.beforeNavigation) /\ ClaimNavigation > 0) =>
          (bn > 0 /\ bn < ClaimNavigation)
    /\ (IsSet(options.beforeScreenshot) /\ ClaimExtraction > 0) =>
          (bs > ClaimNavigation /\ ClaimNavigation > 0 /\ bs < ClaimExtraction
           /\ IsSet(gotoOptions))
    /\ (bn > 0 /\ bs > 0) => bn < bs
    /\ Len(hookCalls) = ClaimCount("beforeNavigation") + ClaimCount("beforeScreenshot")
    /\ \A i \in 1 .. Len(hookCalls) :
          /\ hookCalls[i].page = "open"
          /\ hookCalls[i].browser = browser /\ browser # "none"
          /\ hookCalls[i].name =
                (IF i = 1 /\ bn > 0 THEN "beforeNavigation" ELSE "beforeScreenshot")

C12_Witness ==
    /\ CallSettled /\ outcome.kind = "return"
    /\ options.beforeNavigation = Some("returns")
    /\ options.beforeScreenshot = Some("returns")
    /\ browser = "injected"
    /\ hookCalls = <<[name |-> "beforeNavigation", page |-> "open", browser |-> "injected"],
                     [name |-> "beforeScreenshot", page |-> "open", browser |-> "injected"]>>
    /\ ClaimFirst({"beforeNavigation"}) < ClaimNavigation
    /\ ClaimNavigation < ClaimFirst({"beforeScreenshot"})
    /\ ClaimFirst({"beforeScreenshot"}) < ClaimExtraction

\* C13: beforeScreenshot is invoked after the wait for waitForElement and
\* before the wait for element and the measurement of the element's
\* rectangle; a capture that measures the element with the hook given has
\* invoked the hook before.
C13_HookBeforeElementMeasurement ==
    LET bs == ClaimFirst({"beforeScreenshot"})
        wait == ClaimFirst({"waitForSelector(waitForElement)"})
        visible == ClaimFirst({"waitForSelector(element)"})
        measure == ClaimFirst({"getBoundingClientRect"})
    IN
    /\ bs > 0 => /\ wait < bs
                 /\ visible > 0 => bs < visible
                 /\ measure > 0 => bs < measure
    /\ (IsSet(options.beforeScreenshot) /\ (visible > 0 \/ measure > 0)) => bs > 0
    /\ (IsSet(options.beforeScreenshot) /\ IsSet(elementRect)) =>
          (bs > 0 /\ measure > bs
           /\ screenshotOptions.clip # Undefined)
    /\ (bs > 0 /\ TruthyStr(options.waitForElement)
        /\ options.waitForElement # options.element) => wait > 0

C13_Witness ==
    /\ CallSettled /\ outcome.kind = "return"
    /\ options.waitForElement = Some("#wait") /\ options.element = Some("#el")
    /\ IsSet(options.beforeScreenshot)
    /\ 0 < ClaimFirst({"waitForSelector(waitForElement)"})
    /\ ClaimFirst({"waitForSelector(waitForElement)"}) < ClaimFirst({"beforeScreenshot"})
    /\ ClaimFirst({"beforeScreenshot"}) < ClaimFirst({"waitForSelector(element)"})
    /\ ClaimFirst({"waitForSelector(element)"}) < ClaimFirst({"getBoundingClientRect"})
    /\ Val(shot).clip = elementRect

\* What the named hook of this call throws, and the hook having thrown.
ClaimHookThrew(name) == options[name] = Some("throws") /\ ClaimCount(name) > 0

\* C14: when beforeNavigation or beforeScreenshot throws, the call fails with
\* the very error the hook threw; the hook is the last thing done before the
\* page is closed (after a throwing beforeNavigation no navigation is issued),
\* nothing is extracted or returned, and the page is closed.
C14_HookErrorPropagates ==
    \A name \in {"beforeNavigation", "beforeScreenshot"} :
        ClaimHookThrew(name) =>
            /\ pending = Throw(Err("thrown by hook", {name}, 0))
            /\ FailsWith(Err("thrown by hook", {name}, 0))
            /\ SessionOps[Len(SessionOps)] = name
            /\ name = "beforeNavigation" =>
                  (ClaimNavigation = 0 /\ ~IsSet(gotoOptions) /\ ~IsSet(response))
            /\ ClaimExtraction = 0 /\ ~IsSet(shot) /\ ~IsSet(result)
            /\ outcome.kind # "return"
            /\ CaptureSettled => pageCloseCalls = 1

C14_Witness ==
    /\ CallSettled /\ ClaimHookThrew("beforeNavigation")
    /\ IsSet(options.beforeScreenshot)
    /\ outcome = Throw(Err("thrown by hook", {"beforeNavigation"}, 0))
    /\ ClaimCount("beforeScreenshot") = 0
    /\ page = "closed" /\ IsSet(pageError)

\* Positions of the pipeline before, in and after the injection of modules
\* and scripts.
ClaimBeforeInjection ==
    {"authenticate", "setCookie", "setExtraHTTPHeaders", "setUserAgent",
     "setViewport", "emulate", "emulateMediaFeatures", "beforeNavigation",
     "navigate", "disableAnimations", "hideElements", "removeElements", "click",
     "enableJavaScript"}
ClaimInjection == {"modules", "scripts", "restoreJavaScript"}
ClaimAfterInjection ==
    {"styles", "waitForElement", "beforeScreenshot", "waitForSelector", "delay",
     "measureElement", "scrollToElement", "queryBody", "boundingBox",
     "savePosition", "scrollBy", "waitForNetworkIdle", "settle", "remeasure",
     "restore", "dispose", "inset", "extract"}
ClaimInjects ==
    \/ (IsSet(options.modules) /\ Len(Val(options.modules)) > 0)
    \/ (IsSet(options.scripts) /\ Len(Val(options.scripts)) > 0)

\* C15: with isJavaScriptEnabled: false, JavaScript is off on the page from
\* the start of the request setup through navigation up to the injection, on
\* during the injection of modules and scripts when there are any, and off
\* again at every later stage up to the extraction; once the pipeline has
\* settled it is off as well, also after a failed injection, unless the call
\* to switch it failed itself.
C15_JavaScriptOnlyDuringInjection ==
    options.isJavaScriptEnabled = Some(FALSE) =>
        /\ pc \in ClaimBeforeInjection => ~javaScript
        /\ pc \in {"modules", "scripts"} => (javaScript <=> ClaimInjects)
        /\ pc \in ClaimAfterInjection => ~javaScript
        /\ (ClaimNavigation > 0 /\ ClaimCount("setJavaScriptEnabled") = 1) => ~javaScript
        /\ (pc \notin ClaimInjection /\ ClaimCount("setJavaScriptEnabled") > 0
            /\ pending # Throw(OpError("setJavaScriptEnabled"))) => ~javaScript
        /\ (ClaimCount("addScriptTag(module)") + ClaimCount("addScriptTag(script)") > 0
            /\ pc \notin {"modules", "scripts", "restoreJavaScript"}) =>
              /\ ClaimCount("setJavaScriptEnabled") = 3
              /\ ClaimFirst({"setJavaScriptEnabled"}) < ClaimNavigation

C15_Witness ==
    /\ CallSettled /\ options.isJavaScriptEnabled = Some(FALSE)
    /\ outcome = Throw(OpError("addScriptTag(module)"))
    /\ ClaimCount("setJavaScriptEnabled") = 3
    /\ ~javaScript

\* Operations that scroll the window, and the capture being one that the
\* claims let scroll through the page.
ClaimScrollOps == {"scrollBy", "scrollTo", "scrollToElement"}
ClaimScrollAsked ==
    \/ (options.fullPage = Some(TRUE) /\ ~TruthyStr(options.element))
    \/ options.preloadLazyContent = Some(TRUE)

\* C16 as stated: without full-page capture in effect, preloadLazyContent and
\* scrollToElement no scroll operation is ever issued; with full-page capture
\* in effect or preloadLazyContent, and a measured body taller than the
\* page's viewport, a capture that extracts its output has issued a scroll
\* step before.
C16_ScrollsWhenBodyExceedsViewport ==
    /\ (~ClaimScrollAsked /\ ~TruthyStr(options.scrollToElement)) =>
          (ClaimFirst(ClaimScrollOps) = 0 /\ ClaimCount("$(body)") = 0)
    /\ (/\ ClaimScrollAsked
        /\ ClaimExtraction > 0
        /\ ClaimCount("boundingBox") > 0
        /\ IsSet(site.body[1])
        /\ Val(site.body[1]) > Val(viewport).height) =>
          (ClaimFirst({"scrollBy"}) > 0 /\ ClaimFirst({"scrollBy"}) < ClaimExtraction)

\* Base64 decoding: the bytes a string encodes, or Undefined when the string
\* is not base64.
ClaimSextet(c) ==
    IF \E i \in 1 .. 64 : Base64Alphabet[i] = c
        THEN (CHOOSE i \in 1 .. 64 : Base64Alphabet[i] = c) - 1
        ELSE -1

RECURSIVE ClaimDecode(_)
ClaimDecode(chars) ==
    IF Len(chars) = 0 THEN Some(<<>>)
    ELSE IF Len(chars) < 4 THEN Undefined
    ELSE
        LET a == ClaimSextet(chars[1])
            b == ClaimSextet(chars[2])
            c == ClaimSextet(chars[3])
            d == ClaimSextet(chars[4])
            last == Len(chars) = 4
        IN
        IF a < 0 \/ b < 0 THEN Undefined
        ELSE IF chars[3] = "=" THEN
            (IF last /\ chars[4] = "=" THEN Some(<<a * 4 + b \div 16>>) ELSE Undefined)
        ELSE IF c < 0 THEN Undefined
        ELSE IF chars[4] = "=" THEN
            (IF last THEN Some(<<a * 4 + b \div 16, (b % 16) * 16 + c \div 4>>)
             ELSE Undefined)
        ELSE IF d < 0 THEN Undefined
        ELSE
            LET rest == ClaimDecode(SubSeq(chars, 5, Len(chars))) IN
            IF ~IsSet(rest) THEN Undefined
            ELSE Some(<<a * 4 + b \div 16, (b % 16) * 16 + c \div 4, (c % 4) * 64 + d>>
                      \o Val(rest))

\* The bytes of the buffer the pipeline returned.
ClaimBytes == Val(Val(result)).bytes

\* C17 as stated: for one pipeline result, buffer() returns its bytes, and
\* the string base64() returns decodes, as base64, to those same bytes.
C17_Base64DecodesToBuffer ==
    (CallSettled /\ outcome.kind = "return" /\ IsSet(result)) =>
        /\ entry = "buffer" => outcome.value = ClaimBytes
        /\ entry = "base64" => ClaimDecode(outcome.value) = Some(ClaimBytes)

\* C18: file() with overwrite unset or false and an existing destination
\* fails and leaves the file as it was; with overwrite: true, or when the
\* destination does not exist, a successful write leaves the new capture in
\* the file, its directory having been created first; a failed write leaves
\* the destination as it was.
C18_OverwriteOnlyWhenAsked ==
    [][/\ pc = "mkdir" =>
             (pc' = "writeFile" => (fs'.dir /\ fs'.file = fs.file))
       /\ pc = "writeFile" =>
             IF IsSet(fs.file) /\ options.overwrite # Some(TRUE)
                 THEN fs' = fs /\ outcome'.kind = "throw"
                 ELSE /\ fs.dir
                      /\ outcome'.kind = "return" => fs' = [fs EXCEPT !.file = Some(ClaimBytes)]
                      /\ outcome'.kind = "throw" => fs' = fs]_vars

C18_Witness ==
    /\ CallSettled /\ entry = "file" /\ options.overwrite = Some(FALSE)
    /\ fs.file = Some(<<1>>)
    /\ captured.kind = "return"
    /\ outcome = Throw(Err("EEXIST", {"writeFile"}, 0))

\* The names of a set of header entries, and the entry of a name.
ClaimNames(entries) == {e[1] : e \in entries}
ClaimRefererNames == {"referer", "Referer", "REFERER"}

\* C19: with referrer set (to a non-empty string), the headers installed are
\* the entries of the headers option whose name is not referer in any letter
\* case, each with its value as a string, and a URL navigation is given the
\* referrer as its referer; without referrer every entry is installed and no
\* referer is given to the navigation.
C19_ReferrerOverridesHeader ==
    LET given == IsSet(options.referrer) /\ Val(options.referrer) # ""
        kept == IF given
                   THEN {e \in Val(options.headers) : e[1] \notin ClaimRefererNames}
                   ELSE Val(options.headers)
    IN
    /\ IsSet(headers) =>
          /\ IsSet(options.headers)
          /\ ClaimNames(Val(headers)) = ClaimNames(kept)
          /\ \A e \in kept :
                <<e[1], [isString |-> TRUE, value |-> e[2].value]>> \in Val(headers)
          /\ Cardinality(Val(headers)) = Cardinality(kept)
          /\ ClaimNavigation = 0 \/ ClaimFirst({"setExtraHTTPHeaders"}) < ClaimNavigation
    /\ (IsSet(options.headers) /\ ClaimNavigation > 0) => IsSet(headers)
    /\ IsSet(gotoOptions) =>
          Val(gotoOptions).referer =
              (IF given /\ options.inputType # Some("html")
                  THEN options.referrer ELSE Undefined)

C19_Witness ==
    /\ CallSettled /\ outcome.kind = "return"
    /\ options.referrer = Some(ReferrerOption)
    /\ IsSet(options.headers) /\ IsSet(headers) /\ IsSet(gotoOptions)
    /\ ClaimNames(Val(options.headers)) = {"REFERER", "referer", "Referrer", "x-powered-by"}
    /\ ClaimNames(Val(headers)) = {"Referrer", "x-powered-by"}
    /\ Val(gotoOptions).referer = Some(ReferrerOption)
    /\ ClaimFirst({"goto"}) > 0

\* The device profiles the claims are checked against.
ClaimProfile(name) ==
    IF name = "iPhone X"
        THEN [viewport |-> [width |-> 375, height |-> 812, deviceScaleFactor |-> 3],
              userAgent |-> "Mozilla/5.0 (iPhone X)"]
        ELSE [viewport |-> [width |-> 375, height |-> 667, deviceScaleFactor |-> 2],
              userAgent |-> "Mozilla/5.0 (iPhone 6)"]

\* C20: with an emulateDevice name outside the device table nothing is
\* emulated, no hook is invoked, no navigation is issued, nothing is extracted
\* or returned, and a call whose operations all succeeded fails with the
\* device-not-supported error naming the device, its page closed.  (A name
\* is a non-empty string: the empty string leaves the option off.)  With a
\* known name the profile is applied after the viewport and the user agent
\* have been set, and from then on the page has the device's viewport, scale
\* factor and user agent whatever width, height, scaleFactor and userAgent are.
C20_DeviceEmulation ==
    LET name == Val(options.emulateDevice)
        emulate == ClaimFirst({"emulate"})
    IN
    IF ~TruthyStr(options.emulateDevice) THEN emulate = 0 ELSE
        IF name \notin {"iPhone X", "iPhone 6"}
            THEN /\ emulate = 0 /\ ClaimNavigation = 0 /\ ClaimExtraction = 0
                 /\ hookCalls = <<>> /\ ~IsSet(gotoOptions)
                 /\ ~IsSet(shot) /\ ~IsSet(result)
                 /\ pending.kind # "return" /\ outcome.kind # "return"
                 /\ (CaptureSettled /\ pending.kind = "throw"
                     /\ pending.error.kind # "operation failed") =>
                       /\ captured = Throw(Err("device not supported", {name}, 0))
                       /\ SessionOps[Len(SessionOps)] = "setViewport"
                       /\ pageCloseCalls = 1
                       /\ CallSettled => outcome = captured
            ELSE /\ emulate > 0 =>
                       /\ ClaimFirst({"setViewport"}) > 0
                       /\ ClaimFirst({"setViewport"}) < emulate
                       /\ ClaimFirst({"setUserAgent"}) < emulate
                       /\ ClaimNavigation = 0 \/ emulate < ClaimNavigation
                 /\ (emulate > 0 /\ pending # Throw(OpError("emulate"))) =>
                       /\ viewport = Some(ClaimProfile(name).viewport)
                       /\ userAgent = Some(ClaimProfile(name).userAgent)
                 /\ ClaimNavigation > 0 => emulate > 0

C20_Witness ==
    /\ CallSettled /\ options.emulateDevice = Some("No Such Phone")
    /\ options.userAgent = Some("agent")
    /\ outcome = Throw(Err("device not supported", {"No Such Phone"}, 0))
    /\ userAgent = Some("agent")
    /\ page = "closed" /\ ClaimNavigation = 0

\* The bound of the navigation in milliseconds, the wait-until variant, and
\* the moment the site reaches it, as the claims state them.
ClaimBound == IF IsSet(options.timeout) THEN 1000 * Val(options.timeout) ELSE 60000
ClaimVariant ==
    IF options.waitForNetworkIdle = Some(TRUE) THEN "networkidle0" ELSE "networkidle2"
ClaimIdleAt == site.load[ClaimVariant]
ClaimOutOfTime ==
    ClaimBound # 0 /\ (IF IsSet(ClaimIdleAt) THEN Val(ClaimIdleAt) > ClaimBound ELSE TRUE)
ClaimNavigationTimeout == Err("TimeoutError", {"navigate"}, 0)

\* C21: the navigation is given timeout * 1000 ms (60 s by default) and the
\* wait-until variant networkidle0 exactly when waitForNetworkIdle is set,
\* networkidle2 otherwise.  A site that has not reached that condition within
\* the bound never gets past the navigation: the call fails (with the
\* navigation's timeout error unless the navigation failed otherwise), the
\* navigation is the last stage issued, nothing is extracted or returned and
\* the page is closed.  With timeout 0 the navigation never times out.
C21_NavigationBoundedByTimeout ==
    /\ IsSet(gotoOptions) =>
          /\ Val(gotoOptions).timeout = ClaimBound
          /\ Val(gotoOptions).waitUntil = ClaimVariant
    /\ ClaimNavigation > 0 <=> IsSet(gotoOptions)
    /\ (ClaimOutOfTime /\ ClaimNavigation > 0) =>
          /\ pending \in {Throw(ClaimNavigationTimeout), Throw(OpError("navigate"))}
          /\ ClaimNavigation = Len(SessionOps)
          /\ ~IsSet(response) /\ ~IsSet(shot) /\ ~IsSet(result)
          /\ CaptureSettled => captured = pending /\ pageCloseCalls = 1
          /\ CallSettled => outcome = pending
    /\ ClaimBound = 0 => pending # Throw(ClaimNavigationTimeout)
    /\ (pending = Throw(ClaimNavigationTimeout)) => ClaimOutOfTime

C21_Witness ==
    /\ CallSettled /\ options.timeout = Some(1)
    /\ options.waitForNetworkIdle = Some(TRUE)
    /\ site.load = Load(Some(500), Some(5000))
    /\ outcome = Throw(ClaimNavigationTimeout)
    /\ page = "closed" /\ gotoOptions # Undefined
    /\ Val(gotoOptions).timeout = 1000

\* The operations the scroll-and-wait loop issues once per step, and the
\* JavaScript flag, which is set at the start and around the injection.
ClaimRepeated == {"scrollBy", "waitForNetworkIdle", "boundingBox", "setJavaScriptEnabled"}
ClaimOps == {ops[i] : i \in 1 .. Len(ops)}

\* C22: one call launches at most one browser (none when one is injected),
\* opens at most one page, navigates at most once, extracts at most once and
\* closes the page and the browser at most once; every operation outside the
\* scroll loop is issued at most once, so an operation that rejected was
\* issued once, and after it only the finally blocks act: the JavaScript flag
\* is restored, the body handle is disposed of, page and browser are closed.
C22_PipelineRunsOnce ==
    /\ ClaimCount("launch") <= 1 /\ ClaimCount("newPage") <= 1
    /\ IsSet(options._browser) => ClaimCount("launch") = 0
    /\ ClaimCount("goto") + ClaimCount("setContent") <= 1
    /\ ClaimCount("screenshot") + ClaimCount("pdf") <= 1
    /\ pageCloseCalls <= 1 /\ browserCloseCalls <= 1
    /\ \A op \in ClaimOps \ ClaimRepeated : ClaimCount(op) = 1
    /\ ClaimCount("setJavaScriptEnabled") <= 3
    /\ \A op \in ClaimOps \ ClaimRepeated :
          pending = Throw(OpError(op)) =>
              \A i \in ClaimFirst({op}) + 1 .. Len(ops) :
                  ops[i] \in {"setJavaScriptEnabled", "dispose", "page.close",
                              "browser.close"}

C22_Witness ==
    /\ CallSettled /\ outcome = Throw(OpError("click"))
    /\ ClaimCount("click") = 1
    /\ ClaimCount("launch") = 1 /\ ClaimCount("newPage") = 1
    /\ ClaimCount("goto") = 1 /\ ClaimExtraction = 0
    /\ pageCloseCalls = 1 /\ browserCloseCalls = 1

\* A concurrent call is still using the browser; it is still using its page.
ClaimUsesBrowser(i) == concurrent[i].pc \in {"newPage", "navigate", "extract"}
ClaimUsesPage(i) == concurrent[i].pc \in {"navigate", "extract"}
ClaimKeptAlive(i) == concurrent[i].options._keepAlive = Some(TRUE)

\* What a call given an open browser and nothing else beside it settles with.
ClaimAlone == Return(Some(Binary("Buffer", <<137, 80, 78, 71>>)))

\* Each call has a page of its own, and no call's page or browser is closed
\* under it; every call settles as it does alone.
ClaimIsolated ==
    /\ \A i, j \in SharedCalls :
          (i # j /\ concurrent[i].page # 0) => concurrent[i].page # concurrent[j].page
    /\ \A i \in SharedCalls :
          /\ ClaimUsesBrowser(i) => sharedBrowser.open
          /\ ClaimUsesPage(i) => concurrent[i].page \in sharedBrowser.pages
          /\ concurrent[i].pc = "done" => concurrent[i].outcome = ClaimAlone

\* C23 as stated: concurrent calls sharing one injected browser each have a
\* page of their own, no call's page or browser is closed by another call
\* while in use, and each call's outcome is the one it has alone.
C23_SharedBrowserCallsIsolated == concurrent # <<>> => ClaimIsolated

\* C23, amended: the same, for calls that all set _keepAlive; and with or
\* without _keepAlive the pages are distinct and a call's page stays open
\* while the call uses it and the browser is running (page.close() closes the
\* caller's page only).
C23_SharedBrowserIsolatedWhenKeptAlive ==
    concurrent # <<>> =>
        /\ (\A i \in SharedCalls : ClaimKeptAlive(i)) => ClaimIsolated
        /\ \A i, j \in SharedCalls :
              (i # j /\ concurrent[i].page # 0) =>
                  concurrent[i].page # concurrent[j].page
        /\ \A i \in SharedCalls :
              (ClaimUsesPage(i) /\ sharedBrowser.open) =>
                  concurrent[i].page \in sharedBrowser.pages

C23_Witness ==
    /\ concurrent # <<>>
    /\ \A i \in SharedCalls : ClaimKeptAlive(i)
    /\ concurrent[1].pc = "done" /\ concurrent[1].outcome = ClaimAlone
    /\ concurrent[2].pc = "extract" /\ concurrent[2].page = 1
    /\ concurrent[1].page = 2
    /\ sharedBrowser.open /\ sharedBrowser.pages = {1}

\* The stages in the order the claim lists them, each with the operations it
\* issues; stage 0 is what precedes the pipeline.
ClaimStages ==
    <<{"evaluateOnNewDocument"},
      {"setBypassCSP", "setJavaScriptEnabled"},
      {"on(console, debug)", "on(pageerror)", "on(console, onConsole)"},
      {"authenticate"}, {"setCookie"}, {"setExtraHTTPHeaders"}, {"setUserAgent"},
      {"setViewport"}, {"emulate"}, {"emulateMediaFeatures"}, {"beforeNavigation"},
      {"goto", "setContent"},
      {"disableAnimations"}, {"hideElements"}, {"removeElements"}, {"click"},
      {"addScriptTag(module)", "addScriptTag(script)"},
      {"addStyleTag"}, {"waitForSelector(waitForElement)"}, {"beforeScreenshot"},
      {"waitForSelector(element)"}, {"delay"}, {"getBoundingClientRect"},
      {"scrollToElement"},
      {"$(body)", "boundingBox", "evaluate(scrollPosition)", "scrollBy",
       "waitForNetworkIdle", "scrollTo", "dispose"},
      {"evaluate(innerSize)"},
      {"screenshot", "pdf"}>>
ClaimStageWith(op) == CHOOSE k \in 1 .. Len(ClaimStages) : op \in ClaimStages[k]
ClaimNavigationStage == ClaimStageWith("goto")
ClaimInjectionStage == ClaimStageWith("addScriptTag(module)")

\* The stage of the i-th of a sequence of operations.  The JavaScript flag is
\* set in the second stage and again around the injection; closing the page
\* and the browser comes after every stage.
ClaimStageOf(seq, i) ==
    IF seq[i] \in {"launch", "newPage", "mkdir(cacheDirectory)", "fromPrebuiltFull",
                   "enableBlockingInPage"} THEN 0
    ELSE IF seq[i] \in {"page.close", "browser.close"} THEN Len(ClaimStages) + 1
    ELSE IF seq[i] = "setJavaScriptEnabled"
            /\ \E j \in 1 .. i - 1 : seq[j] = "setJavaScriptEnabled"
        THEN ClaimInjectionStage
    ELSE CHOOSE k \in 1 .. Len(ClaimStages) : seq[i] \in ClaimStages[k]

ClaimHasStage(op) ==
    \/ op \in {"launch", "newPage", "mkdir(cacheDirectory)", "fromPrebuiltFull",
                "enableBlockingInPage", "page.close", "browser.close"}
    \/ \E k \in 1 .. Len(ClaimStages) : op \in ClaimStages[k]

\* C24: the operations of a capture are issued stage by stage in the listed
\* order: every operation a step issues belongs to a stage, and to the stage
\* of the operation issued before it or to a later one; an operation on the
\* document (any stage after the navigation, up to the extraction) is issued
\* only after a navigation, and never after a navigation that failed.
C24_StagesInOrder ==
    [][\A i \in Len(ops) + 1 .. Len(ops') :
          /\ ClaimHasStage(ops'[i])
          /\ i > 1 => ClaimStageOf(ops', i - 1) <= ClaimStageOf(ops', i)
          /\ (ClaimStageOf(ops', i) > ClaimNavigationStage
               /\ ClaimStageOf(ops', i) <= Len(ClaimStages)) =>
                 /\ \E j \in 1 .. i - 1 : ops'[j] \in {"goto", "setContent"}
                 /\ pending \notin {Throw(OpError("navigate")),
                                    Throw(Err("TimeoutError", {"navigate"}, 0))}
                 /\ pc \notin {"closePage", "closeBrowser"}]_vars

C24_Witness ==
    /\ CallSettled /\ outcome.kind = "return"
    /\ options.preloadLazyContent = Some(TRUE)
    /\ options.element = Some("#el")
    /\ \A k \in (1 .. Len(ClaimStages)) \ {26} :
          \E i \in 1 .. Len(SessionOps) : SessionOps[i] \in ClaimStages[k]
    /\ ClaimCount("setJavaScriptEnabled") = 3

\* The viewport height the loop steps by, and the number k when the body is
\* measured once and for all at k whole viewport heights (0 otherwise).
ClaimStep == IF IsSet(options.height) THEN Val(options.height) ELSE 800
ClaimWholeScreens ==
    IF Len(site.body) = 1 /\ site.body[1] # Undefined
       /\ ClaimStep > 0
       /\ site.grows = 0
       /\ Val(site.body[1]) % ClaimStep = 0
        THEN Val(site.body[1]) \div ClaimStep
        ELSE 0

ClaimViewportHeight == Val(viewport).height
ClaimMeasurement(n) ==
    IF n + 1 <= Len(site.body) THEN site.body[n + 1]
    ELSE IF site.body[Len(site.body)] = Undefined THEN Undefined
    ELSE Some(Val(site.body[Len(site.body)]) + (n + 1 - Len(site.body)) * site.grows)

\* C26 as stated: every scroll step moves the window down by exactly the
\* height of the viewport; the body has been measured once before the loop and
\* once after every completed step; a re-measurement replaces the tracked total
\* height when it is larger and leaves it alone when it is smaller, equal or
\* unavailable, so the total never decreases; and the tracked offset is a whole
\* multiple of the viewport height.
C26_StepsOfOneViewportHeight ==
    /\ [][/\ (pc = "scrollBy" /\ pc' = "waitForNetworkIdle") =>
               scroll'.y = scroll.y + ClaimViewportHeight
          /\ (pc = "remeasure" /\ pc' \in {"scrollBy", "restore"}) =>
               LET box == ClaimMeasurement(scroll.steps) IN
               /\ scroll'.pageHeight =
                     IF box # Undefined /\ Val(box) > scroll.pageHeight
                         THEN Val(box) ELSE scroll.pageHeight
               /\ scroll'.viewportIncrement =
                     scroll.viewportIncrement + ClaimViewportHeight
          /\ scroll'.pageHeight >= scroll.pageHeight]_vars
    /\ [](pc \in {"scrollBy", "restore"} =>
            /\ ClaimCount("boundingBox") = 1 + ClaimCount("scrollBy")
            /\ \E k \in 0 .. Len(ops) : scroll.viewportIncrement = k * ClaimViewportHeight
            /\ scroll.viewportIncrement = ClaimCount("scrollBy") * ClaimViewportHeight)

\* The wait after a scroll step cannot see the network idle within the bound.
ClaimIdleOutOfTime ==
    /\ ClaimBound # 0
    /\ IF site.load.networkidle0 = Undefined THEN TRUE
       ELSE Val(site.load.networkidle0) > ClaimBound
ClaimLast == IF ops = <<>> THEN "" ELSE ops[Len(ops)]
ClaimIdleTimeout == Err("TimeoutError", {"waitForNetworkIdle"}, 0)

\* C27: the timeout of the network-idle wait after a scroll step never fails
\* the capture: no call fails with that wait's timeout error, and when the
\* wait has run out of time the loop goes on to the settle delay unless the
\* wait failed with another error; another error of the wait fails the
\* capture with nothing issued after it but the disposal and the closing.
C27_IdleTimeoutNotFatal ==
    /\ pending # Throw(ClaimIdleTimeout)
    /\ captured # Throw(ClaimIdleTimeout)
    /\ outcome # Throw(ClaimIdleTimeout)
    /\ (ClaimLast = "waitForNetworkIdle" /\ pending.kind = "none") =>
          pc \in {"settle", "remeasure"}
    /\ (ClaimLast = "waitForNetworkIdle" /\ pending.kind = "throw") =>
          /\ pending = Throw(OpError("waitForNetworkIdle"))
          /\ pc = "dispose"
    /\ pending = Throw(OpError("waitForNetworkIdle")) =>
          /\ ClaimExtraction = 0
          /\ CallSettled => outcome = pending
          /\ ClaimLast \in {"waitForNetworkIdle", "dispose", "page.close", "browser.close"}

C27_Witness ==
    /\ CallSettled /\ outcome.kind = "return"
    /\ ClaimIdleOutOfTime
    /\ ClaimCount("waitForNetworkIdle") = 2 /\ ClaimCount("scrollBy") = 2
    /\ ClaimExtraction > 0

\* The loop has taken at least one step in this call.
ClaimLoopRan == ClaimCount("scrollBy") >= 1
ClaimRecorded == scroll.initialScrollPosition

\* C28: the position is recorded before the first step of the loop, after any
\* scrollToElement, and it is where the window stands at that moment; when
\* the loop has run and the output is extracted, the window stands at the top
\* for a full-page capture and at the recorded position otherwise.
C28_ScrollPositionRestored ==
    /\ [][(pc = "savePosition" /\ ops' # ops /\ pc' # "dispose") =>
             /\ ClaimRecorded' = Some(scroll.y)
             /\ ClaimCount("scrollBy") = 0
             /\ pc' = "scrollBy"
             /\ TruthyStr(options.scrollToElement) => ClaimCount("scrollToElement") = 1]_vars
    /\ []((ClaimLoopRan /\ (pc = "extract" \/ IsSet(shot) \/ IsSet(result))) =>
             /\ ClaimLast # "scrollBy"
             /\ ClaimCount("scrollTo") = 1
             /\ IF TruthyBool(screenshotOptions.fullPage)
                   THEN scroll.y = 0
                   ELSE /\ IsSet(ClaimRecorded)
                        /\ scroll.y = Val(ClaimRecorded))

C28_Witness ==
    /\ ClaimLoopRan /\ IsSet(shot)
    /\ ~TruthyBool(screenshotOptions.fullPage)
    /\ IsSet(ClaimRecorded)
    /\ scroll.y = 40
    /\ ClaimCount("scrollBy") = 2

\* The call is inside the loop; the body stops growing; the body grows by at
\* least one viewport height at every step.
ClaimInLoop == pc \in {"scrollBy", "waitForNetworkIdle", "settle", "remeasure"}
ClaimStopsGrowing == site.grows = 0
ClaimKeepsGrowing ==
    /\ Len(site.body) = 1 /\ site.body[1] # Undefined
    /\ ClaimStep > 0 /\ site.grows >= ClaimStep

\* What is left of the page below the window, as the loop tracks it.
ClaimLeft(sc) == sc.pageHeight - sc.viewportIncrement

\* C29: on a page whose body stops growing a call inside the loop leaves it,
\* and unless an operation fails it comes to the extraction, every step taken
\* after the last growth leaving less of the page below the window; on a page
\* whose body grows by at least one viewport height at every step the loop is
\* never left but by a failure: no restore, no extraction, no value returned.
C29_LoopEndsWhenGrowthEnds ==
    /\ [][(/\ pc = "remeasure" /\ pc' \in {"scrollBy", "restore"}
            /\ ClaimStopsGrowing /\ scroll.steps >= Len(site.body)) =>
             ClaimLeft(scroll') < ClaimLeft(scroll)]_vars
    /\ (ClaimInLoop /\ ClaimStopsGrowing) ~>
          (ClaimExtraction > 0 \/ pending.kind = "throw" \/ CallSettled)
    /\ []((ClaimKeepsGrowing /\ ClaimLoopRan) =>
             /\ pc \notin {"restore", "inset", "extract"}
             /\ ClaimCount("scrollTo") = 0
             /\ ClaimExtraction = 0
             /\ CallSettled => outcome.kind = "throw")

\* The clip rectangle of the screenshot options, if there is one, is not empty.
ClaimClipPositive(so) ==
    IsSet(so.clip) => (Val(so.clip).width > 0 /\ Val(so.clip).height > 0)

\* C30: page.screenshot is never called with a clip rectangle whose width or
\* height is <= 0, whichever of the clip option, the element and the inset it
\* comes from: the call does not come to the extraction with such a clip, and
\* no screenshot is taken with one.
C30_ClipNeverEmpty ==
    /\ pc = "extract" => ClaimClipPositive(screenshotOptions)
    /\ ClaimExtraction > 0 => ClaimClipPositive(screenshotOptions)
    /\ IsSet(shot) => ClaimClipPositive(Val(shot))

\* round(100 * min(1, max(0, q))) for a quality q held in thousandths: the
\* integer n with n - 1/2 <= 100 * clamped < n + 1/2.
ClaimClamped(q) == IF q < 0 THEN 0 ELSE IF q > 1000 THEN 1000 ELSE q
ClaimPercent(q) ==
    CHOOSE n \in 0 .. 100 : 10 * n - 5 <= ClaimClamped(q) /\ ClaimClamped(q) < 10 * n + 5
ClaimLossy == options.type \in {Some("jpeg"), Some("webp")}

\* C31: the screenshot is taken with quality round(100 * min(1, max(0, quality)))
\* when the quality is a number and the type is given and is not png, and
\* with no quality when the type is png or is not given (or no quality is
\* given); a quality that is handed over is an integer of 0 .. 100.
C31_QualityClampedAndScaled ==
    IsSet(shot) =>
        /\ IF IsSet(options.quality) /\ ClaimLossy
              THEN Val(shot).quality = Some(ClaimPercent(Val(options.quality)))
              ELSE Val(shot).quality = Undefined
        /\ IsSet(Val(shot).quality) => Val(Val(shot).quality) \in 0 .. 100

C31_Witness ==
    /\ IsSet(shot) /\ options.type = Some("webp")
    /\ options.quality = Some(1500)
    /\ Val(shot).quality = Some(100)

\* The scale of C32 in tenths: scaleFactor clamped to [0.1, 2].
ClaimScale(scaleFactor) ==
    IF 10 * scaleFactor < 1 THEN 1 ELSE IF 10 * scaleFactor > 20 THEN 20 ELSE 10 * scaleFactor
ClaimScaleFactor == IF IsSet(options.scaleFactor) THEN Val(options.scaleFactor) ELSE 2
ClaimPdf == options.type = Some("pdf")

\* C32 as stated: page.pdf is called with the scale that is scaleFactor clamped
\* to [0.1, 2], whatever scaleFactor is (0.1 for 0 and below, 2 above 2), and a
\* call with type pdf uses page.pdf and never page.screenshot.
C32_PdfScaleClamped ==
    /\ IsSet(printed) => Val(printed).scale = Some(ClaimScale(ClaimScaleFactor))
    /\ ClaimPdf => (shot = Undefined /\ ClaimCount("screenshot") = 0)
    /\ (ClaimPdf /\ IsSet(result)) => (IsSet(printed) /\ ClaimCount("pdf") = 1)
    /\ ~ClaimPdf => (printed = Undefined /\ ClaimCount("pdf") = 0)

\* C33 as stated: whatever calls have been made with one options object, the
\* object and its launchOptions are what they were before the first call, and
\* every call has launched with the same launch options.
C33_CallerOptionsNeverMutated ==
    /\ reuse.callerOptions = reuse.original
    /\ \A i, j \in 1 .. Len(reuse.launches) : reuse.launches[i] = reuse.launches[j]

\* Everything but the record of the messages handed to the hook.
ClaimOtherThanConsole ==
    <<runVars, sharedBrowser, concurrent, reuse>>
ClaimHookThrows == options.onConsole = Some("throws")

\* C34: handing a console message to onConsole changes nothing of the call,
\* whether the hook returns or throws and wherever the call stands: its
\* position, its operations, its pending completion and its outcome stay as
\* they are; no call fails with the hook's error; and a message the page logs
\* while the listener is attached and the call is running can be delivered
\* whatever the hook did with the messages before it.
C34_OnConsoleErrorsSwallowed ==
    /\ [][consoleCalls' # consoleCalls => UNCHANGED ClaimOtherThanConsole]_vars
    /\ [](/\ pending # Throw(HookError("onConsole"))
          /\ outcome # Throw(HookError("onConsole"))
          /\ pageError # Some(HookError("onConsole"))
          /\ (/\ page = "open" /\ ClaimCount("on(console, onConsole)") = 1
              /\ pc \notin {"captured", "encode", "mkdir", "writeFile", "done"}
              /\ Len(consoleCalls) < site.console) => ENABLED ConsoleMessage)

C34_Witness ==
    /\ ClaimHookThrows
    /\ consoleCalls = <<1, 2>>
    /\ CallSettled /\ outcome.kind = "return"

\* The operations of the ad blocker, and the errors they may reject with.
ClaimAdBlockOps == {AdBlockSteps[i] : i \in 1 .. Len(AdBlockSteps)}
ClaimAdBlockCount ==
    ClaimCount("mkdir(cacheDirectory)") + ClaimCount("fromPrebuiltFull")
    + ClaimCount("enableBlockingInPage")
ClaimPastBlockAds == pc \notin {"start", "launch", "newPage", "blockAds"}

\* C35: no call fails with an error of the ad blocker; the step that runs the
\* ad blocker always hands over to the pipeline with nothing pending, whether
\* its steps resolved or one of them rejected, and only with every step
\* resolved is the filter attached; without blockAds no step of the ad blocker
\* is made and no filter is attached.
C35_AdBlockingBestEffort ==
    /\ [][pc = "blockAds" /\ pc' # pc =>
             /\ pc' = "evaluateOnNewDocument"
             /\ pending' = pending
             /\ adBlocking' => ClaimAdBlockCount' = Len(AdBlockSteps)
             /\ UNCHANGED <<page, browser, requestVars, sessionVars, pageError>>]_vars
    /\ [](/\ \A op \in ClaimAdBlockOps :
                /\ pending # Throw(OpError(op))
                /\ outcome # Throw(OpError(op))
          /\ ~TruthyBool(options.blockAds) => (ClaimAdBlockCount = 0 /\ ~adBlocking)
          /\ adBlocking => TruthyBool(options.blockAds))

C35_Witness ==
    /\ TruthyBool(options.blockAds) /\ ~adBlocking
    /\ ClaimCount("fromPrebuiltFull") = 1 /\ ClaimCount("enableBlockingInPage") = 0
    /\ CallSettled /\ outcome.kind = "return"

\* The two waits for a selector, and the positions behind each of them.
ClaimWaitForElement == "waitForSelector(waitForElement)"
ClaimWaitForSelector == "waitForSelector(element)"
ClaimPastWaitForElement ==
    pc \in {"beforeScreenshot", "waitForSelector", "delay", "measureElement",
            "scrollToElement"}
ClaimPastWaitForSelector == pc \in {"delay", "measureElement", "scrollToElement"}
ClaimWaitFailed ==
    pending \in {Throw(OpError(ClaimWaitForElement)), Throw(OpError(ClaimWaitForSelector))}

\* C36: behind the waitForElement stage the wait for waitForElement has been
\* made once when waitForElement is set and differs from element, and not at
\* all otherwise; behind the element stage the wait for element has been made
\* once when element is set, after the beforeScreenshot hook if there is one,
\* so that a selector given as both is waited for once; a wait that rejects
\* ends the pipeline, nothing is captured or written, and the call fails with
\* the error of the wait.
C36_WaitForElementOnlyWhenDistinct ==
    /\ [](/\ ClaimCount(ClaimWaitForElement) <= 1
          /\ ClaimCount(ClaimWaitForSelector) <= 1
          /\ ClaimCount(ClaimWaitForElement) = 1 =>
                (TruthyStr(options.waitForElement)
                 /\ options.waitForElement # options.element)
          /\ ClaimPastWaitForElement =>
                ClaimCount(ClaimWaitForElement) =
                    IF TruthyStr(options.waitForElement)
                       /\ options.waitForElement # options.element THEN 1 ELSE 0
          /\ ClaimPastWaitForSelector =>
                ClaimCount(ClaimWaitForSelector) =
                    IF TruthyStr(options.element) THEN 1 ELSE 0
          /\ (ClaimCount(ClaimWaitForSelector) = 1 /\ ClaimCount("beforeScreenshot") = 1) =>
                ClaimFirst({"beforeScreenshot"}) < ClaimFirst({ClaimWaitForSelector})
          /\ ClaimWaitFailed =>
                /\ ClaimCount("screenshot") = 0 /\ ClaimCount("pdf") = 0
                /\ shot = Undefined /\ result = Undefined
                /\ ops[Len(ops)] \in {ClaimWaitForElement, ClaimWaitForSelector,
                                      "restoreJavaScript", "page.close", "browser.close"}
                /\ CaptureSettled => captured = pending
                /\ CallSettled => outcome = pending)
    /\ [][ClaimWaitFailed => fs' = fs]_vars

C36_Witness ==
    /\ options.waitForElement = Some("#el") /\ options.element = Some("#el")
    /\ ClaimCount(ClaimWaitForElement) = 0 /\ ClaimCount(ClaimWaitForSelector) = 1
    /\ ClaimCount("beforeScreenshot") = 1
    /\ CallSettled /\ outcome.kind = "return"

ClaimScrollableAncestors ==
    {i \in 2 .. Len(dom.chain) : isOverflown(dom.chain[i])}
ClaimNearest(candidates) == CHOOSE i \in candidates : \A j \in candidates : i <= j
ClaimScrolled == {dom.calls[i].on : i \in {j \in 1 .. Len(dom.calls) : dom.calls[j].method = "scrollTo"}}
ClaimKnownEdges == {"top", "right", "bottom", "left"}
ClaimOffsetFrom ==
    IF IsSet(dom.options) /\ IsSet(Val(dom.options).offsetFrom)
        THEN Val(Val(dom.options).offsetFrom) ELSE "top"
ClaimDistance ==
    IF IsSet(dom.options) /\ IsSet(Val(dom.options).offset)
        THEN Val(Val(dom.options).offset) ELSE 0
ClaimDirect == dom.calls = <<DomCall(1, "scrollIntoView", "start, nearest")>>

\* C38: when scrollToElement has run, with an overflowing element above the
\* target the nearest of them is the one scrolled, to the position the edge
\* (top by default) and the offset (0 by default) give, and an edge outside
\* top/right/bottom/left throws instead; with none, the target is scrolled
\* into view and nothing else is called, whatever the edge and the offset.
C38_NearestScrollableAncestorScrolled ==
    dom.pc \in {"returned", "thrown"} =>
        IF ClaimScrollableAncestors = {}
            THEN dom.pc = "returned" /\ ClaimDirect
            ELSE LET container == ClaimNearest(ClaimScrollableAncestors) IN
                 IF ClaimOffsetFrom \in ClaimKnownEdges
                     THEN /\ dom.pc = "returned"
                          /\ ClaimScrolled = {container}
                          /\ dom.calls[Len(dom.calls)].argument =
                                Val(ScrollPosition(dom.chain[1].rect,
                                                   dom.chain[container].rect,
                                                   dom.chain[container],
                                                   ClaimOffsetFrom, ClaimDistance))
                     ELSE dom.pc = "thrown" /\ ClaimScrolled = {}

ClaimPdfCall == options.type = Some("pdf")
ClaimWithoutInset == [core EXCEPT !.inset = Some(NumberInset(0))]

\* C39: a call for a PDF never fails with the geometry error of the inset
\* stage, whatever the inset is, as it never does with inset 0; the options
\* page.pdf receives are those of the same call with inset 0.
C39_InsetIgnoredForPdf ==
    ClaimPdfCall =>
        /\ pending # Throw(GeometryError)
        /\ CallSettled => outcome # Throw(GeometryError)
        /\ IsSet(printed) => printed = Some(PdfOptions(ClaimWithoutInset))

\* The batches that have an injection in flight.
ClaimBatchesInFlight == {e[1] : e \in batch.inFlight}
ClaimQuiet == batch.inFlight = {}

\* C40: the injections in flight at one moment belong to one list; none is
\* in flight when JavaScript is restored to disabled, when the page is
\* closed or when the call settles.
C40_NoInjectionInFlightAtCleanup ==
    /\ [](Cardinality(ClaimBatchesInFlight) <= 1)
    /\ [][/\ (batch.pc = "restore" /\ batch.temporaryJS /\ batch'.pc # "restore")
              => ClaimQuiet
          /\ (batch.pc = "closePage" /\ batch'.pc = "settle") => ClaimQuiet
          /\ (batch.pc = "settle" /\ batch'.pc = "done") => ClaimQuiet]_vars

====
